---- MODULE Spec2Model ----
(***************************************************************************)
(* stealth-fetch-mcp: the tool orchestrator (server.py), the transport     *)
(* client (client.py) and the extractors (parser.py) as a state machine.   *)
(*                                                                         *)
(* Strings of the program that the code inspects character by character    *)
(* (URLs, JSON bodies, regex patterns) are sequences of one-character      *)
(* strings; Python's None is the value Null.                               *)
(***************************************************************************)
EXTENDS Integers, Sequences, FiniteSets, TLC

\* ------------------------------------------------------------------ bounds
\* concurrent single-URL tool calls
MaxCalls == 2
\* length of the urls list of a fetch_bulk call (the code allows 1..50)
MaxUrls == 2
\* largest max_concurrency tried (the code allows 1..20)
MaxConc == 2

\* ----------------------------------------------------------------- strings
Null == <<"None">>

StartsWith(s, p) == Len(s) >= Len(p) /\ SubSeq(s, 1, Len(p)) = p

Contains(s, ch) == \E i \in 1..Len(s) : s[i] = ch

\* smallest index of ch in s at or after position from, 0 when there is none
Find(s, ch, from) ==
    IF \E i \in from..Len(s) : s[i] = ch
    THEN CHOOSE i \in from..Len(s) : s[i] = ch /\ \A j \in from..(i - 1) : s[j] # ch
    ELSE 0

Whitespace == {" ", "\t", "\n"}

\* str.lstrip(): s from its first character that is no whitespace
LStrip(s) ==
    IF \E i \in 1..Len(s) : s[i] \notin Whitespace
    THEN SubSeq(s, CHOOSE i \in 1..Len(s) :
                       s[i] \notin Whitespace /\ \A j \in 1..(i - 1) : s[j] \in Whitespace,
                Len(s))
    ELSE <<>>

\* str.rstrip(): s up to its last character that is no whitespace
RStrip(s) ==
    IF \E i \in 1..Len(s) : s[i] \notin Whitespace
    THEN SubSeq(s, 1, CHOOSE i \in 1..Len(s) :
                          s[i] \notin Whitespace /\ \A j \in (i + 1)..Len(s) : s[j] \in Whitespace)
    ELSE <<>>

\* str.strip()
Strip(s) == LStrip(RStrip(s))

UpperToLower ==
    [c \in {"H", "T", "P", "S", "F", "U", "D", "A", "C"} |->
        CASE c = "H" -> "h" [] c = "T" -> "t" [] c = "P" -> "p"
          [] c = "S" -> "s" [] c = "F" -> "f" [] c = "U" -> "u"
          [] c = "D" -> "d" [] c = "A" -> "a" [] c = "C" -> "c"]

LowerChar(c) == IF c \in DOMAIN UpperToLower THEN UpperToLower[c] ELSE c

\* str.lower()
Lower(s) == [i \in 1..Len(s) |-> LowerChar(s[i])]

Letters == {"a", "b", "f", "h", "i", "l", "m", "o", "p", "s", "t", "H", "T", "P", "S", "F"}

\* the characters urllib accepts in a scheme
SchemeChars == Letters \cup {"0", "1", "+", "-", "."}

\* ------------------------------------------------------------- sample data
HttpA == <<"h", "t", "t", "p", ":", "/", "/", "a">>
HttpsB == <<"h", "t", "t", "p", "s", ":", "/", "/", "b", "/", "p">>
HttpBracket == <<"h", "t", "t", "p", ":", "/", "/", "[">>
SpaceHttpsB == <<" ">> \o HttpsB
FtpA == <<"f", "t", "p", ":", "/", "/", "a">>
UpperHttpA == <<"H", "T", "T", "P", ":", "/", "/", "a">>
MailtoA == <<"m", "a", "i", "l", "t", "o", ":", "a">>

\* the url inputs a caller may pass to a tool or to _fetch
UrlInputs == {HttpA, SpaceHttpsB, HttpBracket, FtpA, UpperHttpA, MailtoA}

HttpPrefix == <<"h", "t", "t", "p", ":", "/", "/">>
HttpsPrefix == <<"h", "t", "t", "p", "s", ":", "/", "/">>
RobotsPath == <<"/", "r", "o", "b", "o", "t", "s", ".", "t", "x", "t">>

\* the body inputs of fetch_json: none, blank, valid JSON, invalid JSON
BodyInputs == {Null, <<" ">>, <<"[", "1", ",", "1", "]">>, <<"[", "1", ",", "]">>}

\* the pattern inputs of extract_links: none, blank, compiling, not compiling
PatternInputs == {Null, <<" ">>, <<"(", "a", ")">>, <<"(">>}

\* the option names libcurl knows (curl_cffi.const.CurlOpt), two of them
CurlOptNames == {"TIMEOUT_MS", "URL"}

\* session_options inputs, given by the option names of their curl_options
\* list: no session_options, with a known option, with an unknown option
SessionOptionInputs == {Null, <<"TIMEOUT_MS">>, <<"BOGUS">>}

\* ------------------------------------------------- input validation (server)
\* _ConfigModel: str_strip_whitespace applies to every str field
str_strip_whitespace(value) == IF value = Null THEN Null ELSE Strip(value)

\* _BaseInputModel._validate_http_url: TRUE when the value is accepted
validate_http_url(value) ==
    StartsWith(value, HttpPrefix) \/ StartsWith(value, HttpsPrefix)

\* ------------------------------------------------------ urlparse (client)
NetlocEnd(s) ==
    IF \E i \in 1..Len(s) : s[i] \in {"/", "?", "#"}
    THEN CHOOSE i \in 1..Len(s) :
            s[i] \in {"/", "?", "#"} /\ \A j \in 1..(i - 1) : s[j] \notin {"/", "?", "#"}
    ELSE Len(s) + 1

\* urllib.parse.urlparse as _fetch and _stealth_fetch_robots_impl use it:
\* the lower-cased scheme, the netloc, and whether it raises ValueError
\* ("Invalid IPv6 URL": a bracket without its partner in the netloc)
urlparse(url) ==
    LET u == LStrip(url)
        i == Find(u, ":", 1)
        has == i > 1 /\ u[1] \in Letters /\ \A j \in 1..(i - 1) : u[j] \in SchemeChars
        scheme == IF has THEN Lower(SubSeq(u, 1, i - 1)) ELSE <<>>
        rest == IF has THEN SubSeq(u, i + 1, Len(u)) ELSE u
        hasNetloc == StartsWith(rest, <<"/", "/">>)
        after == SubSeq(rest, 3, Len(rest))
        netloc == IF hasNetloc THEN SubSeq(after, 1, NetlocEnd(after) - 1) ELSE <<>>
    IN  [raises |-> hasNetloc /\ (Contains(netloc, "[") # Contains(netloc, "]")),
         scheme |-> scheme,
         netloc |-> netloc]

scheme_allowed_any(scheme) == TRUE

\* _fetch: parsed.scheme in {"http", "https"}
scheme_allowed(scheme) == scheme \in {<<"h", "t", "t", "p">>, <<"h", "t", "t", "p", "s">>}

\* _stealth_fetch_robots_impl: f"{parsed.scheme}://{parsed.netloc}/robots.txt"
robots_url(url) ==
    urlparse(url).scheme \o <<":", "/", "/">> \o urlparse(url).netloc \o RobotsPath

\* ------------------------------------------------------ json.loads, re.compile
RECURSIVE IsJsonValue(_)
RECURSIVE IsJsonElements(_)
\* the JSON grammar over the characters 1 [ ] , and whitespace
IsJsonValue(s) ==
    LET t == Strip(s)
    IN  \/ t = <<"1">>
        \/ /\ Len(t) >= 2
           /\ t[1] = "["
           /\ t[Len(t)] = "]"
           /\ \/ Strip(SubSeq(t, 2, Len(t) - 1)) = <<>>
              \/ IsJsonElements(SubSeq(t, 2, Len(t) - 1))

IsJsonElements(s) ==
    \/ IsJsonValue(s)
    \/ \E k \in 2..(Len(s) - 1) :
          /\ s[k] = ","
          /\ IsJsonValue(SubSeq(s, 1, k - 1))
          /\ IsJsonElements(SubSeq(s, k + 1, Len(s)))

\* json.loads(text) returns (TRUE) or raises JSONDecodeError (FALSE)
json_loads_ok(text) == IsJsonValue(Strip(text))

RECURSIVE ParenDepth(_, _)
\* nesting depth after s, -1 once a ")" closes nothing
ParenDepth(s, d) ==
    IF d < 0 \/ s = <<>> THEN d
    ELSE IF Head(s) = "(" THEN ParenDepth(Tail(s), d + 1)
    ELSE IF Head(s) = ")" THEN ParenDepth(Tail(s), d - 1)
    ELSE ParenDepth(Tail(s), d)

\* re.compile(pattern) returns (TRUE) or raises re.error (FALSE)
re_compile_ok(pattern) == ParenDepth(pattern, 0) = 0

\* ------------------------------------------------------ sessions (client)
\* _to_curl_option_key: getattr(CurlOpt, name) raises ValueError for an
\* unknown name
to_curl_option_key_raises(option) == option \notin CurlOptNames

\* _create_session(session_options=...) raises when _normalize_curl_options
\* meets an unknown option name
create_session_raises(options) ==
    \E i \in 1..Len(options) : to_curl_option_key_raises(options[i])

\* ------------------------------------------------------ transport outcomes
Resp(status) == [kind |-> "response", status |-> status, exc |-> "none"]

Exc(type) == [kind |-> "exception", status |-> 0, exc |-> type]

\* curl_cffi exceptions derived from RequestException
RequestExceptions == {"Timeout", "DNSError", "SSLError"}

\* what session.request may do: answer with a status, raise a
\* RequestException, raise TypeError (bad option), or raise anything else
Outcomes == {Resp(200), Resp(404), Exc("Timeout"), Exc("TypeError"), Exc("RuntimeError")}

Ok == [type |-> "none", msg |-> "none"]

Err(type, msg) == [type |-> type, msg |-> msg]

\* _fetch after session.request: the FetchResult (Ok) or the exception raised
fetch_outcome(o) ==
    IF o.kind = "exception"
    THEN IF o.exc \in {"TypeError", "ValueError"}
         THEN Err("FetchError", "Invalid curl_cffi options")
         ELSE IF o.exc \in RequestExceptions
         THEN Err("FetchError", o.exc)
         ELSE Err(o.exc, "transport")
    ELSE IF o.status >= 400
    THEN Err("FetchError", "HTTP error")
    ELSE Ok

\* ------------------------------------------------------------------- state
VARIABLES
    lifespan,   \* app_lifespan: "not_started", "running", "returned", "failed"
    shared,     \* the shared session: [state, created]
    calls,      \* the single-URL tool calls, one record per caller slot
    eph,        \* the throwaway session of each call: "none", "open", "closed"
    inflight,   \* the transport requests awaiting their response
    bulk,       \* the fetch_bulk call
    items,      \* its _fetch_one tasks
    sem,        \* asyncio.Semaphore._value of the fetch_bulk call
    completed,  \* indexes of the items in the order they finished
    sent,       \* the number of session.request calls made for each call and item
    pure,       \* a function of the program being applied: [fn, args, result]
    robots      \* parse_robots_txt: the locals of its loop over the lines

vars == <<lifespan, shared, calls, eph, inflight, bulk, items, sem, completed,
          sent, pure, robots>>

Calls == 1..MaxCalls

\* the caller slot of the fetch_bulk call
BulkId == MaxCalls + 1

SharedSession == [kind |-> "shared", owner |-> 0]

EphSession(c) == [kind |-> "ephemeral", owner |-> c]

\* one slot per place a transport request is made from: a single-URL call
\* <<c, 0>>, item i of the fetch_bulk call <<BulkId, i>>
Slots == {<<c, 0>> : c \in Calls} \cup {<<BulkId, i>> : i \in 1..MaxUrls}

\* no function is being applied
NoPure == [fn |-> "none", args |-> <<>>, result |-> <<>>]

\* parse_robots_txt is not running
NoRobots == [pc |-> "none"]

\* the variables of the functions checked on their own
pureVars == <<pure, robots>>

GenericTools == {"fetch_page", "fetch_text", "fetch_headers", "extract_metadata",
                 "extract_tables", "fetch_robots", "fetch_feed"}

Tools == GenericTools \cup {"fetch_json", "extract_links"}

BaseInput(tool) == [tool |-> tool, url |-> HttpA, sess |-> Null,
                    method |-> "GET", body |-> Null, pattern |-> Null]

\* the inputs of a call: each of the nine single-URL tools without and with
\* session_options; fetch_page and fetch_robots with every url and every
\* session_options; fetch_json with every method and body; extract_links
\* with every pattern; _fetch called directly with every url
CallInputs ==
    {[BaseInput(t) EXCEPT !.sess = s] : t \in Tools, s \in {Null, <<"TIMEOUT_MS">>}}
    \cup {[BaseInput(t) EXCEPT !.url = u, !.sess = s] :
            t \in {"fetch_page", "fetch_robots"}, u \in UrlInputs, s \in SessionOptionInputs}
    \cup {[BaseInput("fetch_json") EXCEPT !.sess = s, !.method = m, !.body = b] :
            s \in {Null, <<"TIMEOUT_MS">>}, m \in {"GET", "POST"}, b \in BodyInputs}
    \cup {[BaseInput("extract_links") EXCEPT !.sess = s, !.pattern = p] :
            s \in {Null, <<"TIMEOUT_MS">>}, p \in PatternInputs}
    \cup {[BaseInput("fetch") EXCEPT !.url = u] : u \in UrlInputs}

NoInput == [tool |-> "none", url |-> Null, sess |-> Null,
            method |-> "GET", body |-> Null, pattern |-> Null]

IdleCall == [pc |-> "idle", params |-> NoInput, err |-> Ok]

IdleBulk == [pc |-> "idle", urls |-> <<>>, max_concurrency |-> 0, delay |-> 0,
             sess |-> Null, err |-> Ok, results |-> <<>>]

\* the server before its lifespan has started
MainInit ==
    /\ lifespan = "not_started"
    /\ shared = [state |-> "none", created |-> 0]
    /\ calls = [c \in Calls |-> IdleCall]
    /\ eph = [c \in 1..BulkId |-> "none"]
    /\ inflight = {}
    /\ bulk = IdleBulk
    /\ items = <<>>
    /\ sem = 0
    /\ completed = <<>>
    /\ sent = [s \in Slots |-> 0]

Init ==
    /\ MainInit
    /\ pure = NoPure
    /\ robots = NoRobots

bulkVars == <<bulk, items, sem, completed>>

\* the variables of the server
mainVars == <<lifespan, shared, calls, eph, inflight, bulkVars, sent>>

\* ---------------------------------------------------------------- lifespan
\* app_lifespan up to its yield: session = _create_session()
LifespanEnter ==
    /\ lifespan = "not_started"
    /\ lifespan' = "running"
    /\ shared' = [state |-> "open", created |-> shared.created + 1]
    /\ UNCHANGED <<calls, eph, inflight, bulkVars, sent, pureVars>>

app_lifespan_exit_no_finally(how) == IF how = "return" THEN "closed" ELSE "open"

\* app_lifespan after its yield: try/finally, await session.close()
app_lifespan_exit(how) == "closed"

\* the lifespan body ends, by return or by an exception, once the calls it
\* awaited have ended
LifespanExit(how) ==
    /\ lifespan = "running"
    /\ \A c \in Calls : calls[c].pc # "inflight"
    /\ bulk.pc \notin {"gathering", "cancelling"}
    /\ lifespan' = IF how = "return" THEN "returned" ELSE "failed"
    /\ shared' = [shared EXCEPT !.state = app_lifespan_exit(how)]
    /\ UNCHANGED <<calls, eph, inflight, bulkVars, sent, pureVars>>

\* ----------------------------------------------------------- session scope
\* _session_scope up to its yield: the session the call works on
session_scope(c, session_options) ==
    IF session_options = Null THEN SharedSession ELSE EphSession(c)

session_scope_exit_no_finally(session_options, how) ==
    IF session_options = Null THEN "none"
    ELSE IF how = "return" THEN "closed" ELSE "open"

\* _session_scope after its yield: the state of the call's throwaway session
\* once the scope is left by how ("return", "exception" or "cancel"); the
\* async with of line 648 closes it on each of them
session_scope_exit(session_options, how) ==
    IF session_options = Null THEN "none" ELSE "closed"

session_scope_exit_shared_closes(session_options, state) ==
    IF session_options = Null THEN "closed" ELSE state

\* _session_scope after its yield: the state of the shared session once the
\* scope is left; line 644 yields it and returns, nothing is done to it
session_scope_exit_shared(session_options, state) == state

\* the shared session after a call has left its session scope
SharedAfter(session_options) ==
    [shared EXCEPT !.state = session_scope_exit_shared(session_options, shared.state)]

\* ------------------------------------------------------- single-URL tools
\* the validated input model: str fields stripped
Validated(in) ==
    [in EXCEPT !.url = str_strip_whitespace(in.url),
               !.body = str_strip_whitespace(in.body),
               !.pattern = str_strip_whitespace(in.pattern)]

json_body_rejected_unchecked(params) == FALSE

\* _stealth_fetch_json_impl lines 706-710: the body is parsed when the method
\* is POST and the body is neither None nor empty
json_body_rejected(params) ==
    /\ params.tool = "fetch_json"
    /\ params.method = "POST"
    /\ params.body \notin {Null, <<>>}
    /\ ~json_loads_ok(params.body)

\* the url the tool hands to _fetch
request_url(params) ==
    IF params.tool = "fetch_robots" THEN robots_url(params.url) ELSE params.url

Ended(pc, params, err) == [pc |-> pc, params |-> params, err |-> err]

Request(c, i, url, session) == [call |-> c, item |-> i, url |-> url, session |-> session]

\* a tool call from the validation of its input to its first suspension, the
\* await of session.request inside _fetch (or to its failure before that)
StartCall(c) ==
    /\ lifespan = "running"
    /\ calls[c].pc = "idle"
    /\ bulk.pc = "idle"
    /\ \E in \in CallInputs :
       LET params == IF in.tool = "fetch" THEN in ELSE Validated(in)
           fail(err) ==
               /\ calls' = [calls EXCEPT ![c] = Ended("failed", params, err)]
               /\ UNCHANGED <<shared, eph, inflight, sent>>
           failInScope(err) ==
               /\ calls' = [calls EXCEPT ![c] = Ended("failed", params, err)]
               /\ eph' = [eph EXCEPT ![c] = session_scope_exit(params.sess, "exception")]
               /\ shared' = SharedAfter(params.sess)
               /\ UNCHANGED <<inflight, sent>>
       IN  IF in.tool # "fetch" /\ ~validate_http_url(params.url)
           THEN /\ calls' = [calls EXCEPT ![c] =
                        Ended("rejected", params, Err("ValidationError", "url"))]
                /\ UNCHANGED <<shared, eph, inflight, sent>>
           ELSE IF json_body_rejected(params)
           THEN fail(Err("FetchError", "Invalid JSON body"))
           ELSE IF params.tool = "fetch_robots" /\ urlparse(params.url).raises
           THEN fail(Err("ValueError", "Invalid IPv6 URL"))
           ELSE IF params.sess # Null /\ create_session_raises(params.sess)
           THEN fail(Err("ValueError", "Unsupported curl option key"))
           ELSE IF urlparse(request_url(params)).raises
           THEN failInScope(Err("ValueError", "Invalid IPv6 URL"))
           ELSE IF ~scheme_allowed(urlparse(request_url(params)).scheme)
           THEN failInScope(Err("ValueError", "Only http/https URLs are supported."))
           ELSE /\ calls' = [calls EXCEPT ![c] = Ended("inflight", params, Ok)]
                /\ eph' = [eph EXCEPT ![c] =
                        IF params.sess = Null THEN "none" ELSE "open"]
                /\ inflight' = inflight \cup
                        {Request(c, 0, request_url(params), session_scope(c, params.sess))}
                /\ sent' = [sent EXCEPT ![<<c, 0>>] = @ + 1]
                /\ UNCHANGED shared
    /\ UNCHANGED <<lifespan, bulkVars, pureVars>>

\* extract_links compiles a non-empty pattern first; re.error becomes ValueError
extract_links_raises(pattern) == pattern \notin {Null, <<>>} /\ ~re_compile_ok(pattern)

\* what the tool does with the FetchResult after the session scope is left
PostProcess(params, feedParses) ==
    IF params.tool = "extract_links" /\ extract_links_raises(params.pattern)
    THEN Ended("failed", params, Err("ValueError", "Invalid regex pattern"))
    ELSE IF params.tool = "fetch_feed" /\ ~feedParses
    THEN Ended("failed", params, Err("FetchError", "Invalid XML feed"))
    ELSE Ended("returned", params, Ok)

\* session.request ends with outcome o: the rest of _fetch, the exit of the
\* session scope and the rest of the tool
Respond(c, o, feedParses) ==
    /\ calls[c].pc = "inflight"
    /\ LET params == calls[c].params
           res == fetch_outcome(o)
       IN  /\ calls' = [calls EXCEPT ![c] =
                   IF res = Ok THEN PostProcess(params, feedParses)
                   ELSE Ended("failed", params, res)]
           /\ eph' = [eph EXCEPT ![c] =
                   session_scope_exit(params.sess, IF res = Ok THEN "return" ELSE "exception")]
           /\ shared' = SharedAfter(params.sess)
    /\ inflight' = {r \in inflight : r.call # c}
    /\ UNCHANGED <<lifespan, bulkVars, sent, pureVars>>

\* the host cancels the call while it awaits session.request
Cancel(c) ==
    /\ calls[c].pc = "inflight"
    /\ calls' = [calls EXCEPT ![c] =
            Ended("cancelled", calls[c].params, Err("CancelledError", "cancelled"))]
    /\ eph' = [eph EXCEPT ![c] = session_scope_exit(calls[c].params.sess, "cancel")]
    /\ shared' = SharedAfter(calls[c].params.sess)
    /\ inflight' = {r \in inflight : r.call # c}
    /\ UNCHANGED <<lifespan, bulkVars, sent, pureVars>>

\* the host takes the outcome of an ended call; the slot is free again
Collect(c) ==
    /\ calls[c].pc \in {"rejected", "failed", "returned", "cancelled"}
    /\ calls' = [calls EXCEPT ![c] = IdleCall]
    /\ eph' = [eph EXCEPT ![c] = "none"]
    /\ sent' = [sent EXCEPT ![<<c, 0>>] = 0]
    /\ UNCHANGED <<lifespan, shared, inflight, bulkVars, pureVars>>

\* -------------------------------------------------------------- fetch_bulk
\* the url inputs of the entries of a fetch_bulk call
BulkUrlInputs == {HttpA, SpaceHttpsB, HttpBracket, FtpA}

RECURSIVE SeqsUpTo(_, _)
\* the sequences over S of length 0..n
SeqsUpTo(S, n) ==
    IF n = 0 THEN {<<>>}
    ELSE SeqsUpTo(S, n - 1) \cup
         {Append(q, x) : q \in {r \in SeqsUpTo(S, n - 1) : Len(r) = n - 1}, x \in S}

\* delay is a float in 0.0..60.0; whole seconds here
BulkInputs ==
    [urls : SeqsUpTo(BulkUrlInputs, MaxUrls), max_concurrency : 0..MaxConc,
     delay : {0, 1}, sess : SessionOptionInputs]

\* StealthFetchBulkInput: urls min_length / max_length, every BulkUrlInput
\* valid, max_concurrency ge / le
bulk_input_valid(urls, max_concurrency) ==
    /\ Len(urls) >= 1
    /\ Len(urls) <= 50
    /\ \A i \in 1..Len(urls) : validate_http_url(urls[i])
    /\ max_concurrency >= 1
    /\ max_concurrency <= 20

Item(pc, url, err) == [pc |-> pc, url |-> url, err |-> err]

ItemIds == 1..Len(items)

Stopped == {"ok", "error", "raised", "cancelled"}

Holding == {i \in ItemIds : items[i].pc \in {"sleeping", "inflight"}}

AllStopped == \A i \in ItemIds : items[i].pc \in Stopped

\* the call from the validation of its input to the await of asyncio.gather
\* (or to its failure before that); gather has made one task per entry
StartBulk ==
    /\ lifespan = "running"
    /\ bulk.pc = "idle"
    /\ \A c \in Calls : calls[c].pc = "idle"
    /\ \E in \in BulkInputs :
       LET urls == [i \in 1..Len(in.urls) |-> str_strip_whitespace(in.urls[i])]
           params == [IdleBulk EXCEPT !.urls = urls, !.max_concurrency = in.max_concurrency,
                                      !.delay = in.delay, !.sess = in.sess]
       IN  IF ~bulk_input_valid(urls, in.max_concurrency)
           THEN /\ bulk' = [params EXCEPT !.pc = "rejected",
                                          !.err = Err("ValidationError", "input")]
                /\ UNCHANGED <<eph, items, sem>>
           ELSE IF in.sess # Null /\ create_session_raises(in.sess)
           THEN /\ bulk' = [params EXCEPT !.pc = "failed",
                                !.err = Err("ValueError", "Unsupported curl option key")]
                /\ sem' = in.max_concurrency
                /\ UNCHANGED <<eph, items>>
           ELSE /\ bulk' = [params EXCEPT !.pc = "gathering"]
                /\ sem' = in.max_concurrency
                /\ eph' = [eph EXCEPT ![BulkId] = IF in.sess = Null THEN "none" ELSE "open"]
                /\ items' = [i \in 1..Len(urls) |-> Item("waiting", urls[i], Ok)]
    /\ UNCHANGED <<lifespan, shared, calls, inflight, completed, sent, pureVars>>

semaphore_locked_never(value) == FALSE

\* asyncio.Semaphore.locked(): no slot is free
semaphore_locked(value) == value <= 0

semaphore_acquire_takes_no_slot(value) == value

\* async with semaphore, on entering the block with a slot free: acquire()
semaphore_acquire(value) == value - 1

semaphore_exit_keeps_on_cancel(value, how) == IF how = "cancel" THEN value ELSE value + 1

\* async with semaphore, on leaving the block by how ("return", "exception"
\* or "cancel"): release()
semaphore_exit(value, how) == value + 1

\* _fetch_one from the call of _fetch to the await of session.request, with
\* held the semaphore value while the item has its slot: the item fails at
\* once when urlparse raises (ValueError is not caught by _fetch_one), else
\* its request is in flight
FetchOneStart(i, held) ==
    IF urlparse(items[i].url).raises \/ ~scheme_allowed(urlparse(items[i].url).scheme)
    THEN /\ items' = [items EXCEPT ![i] =
                 Item("raised", items[i].url,
                      Err("ValueError",
                          IF urlparse(items[i].url).raises THEN "Invalid IPv6 URL"
                          ELSE "Only http/https URLs are supported."))]
         /\ sem' = semaphore_exit(held, "exception")
         /\ completed' = Append(completed, i)
         /\ UNCHANGED <<inflight, sent>>
    ELSE /\ items' = [items EXCEPT ![i].pc = "inflight"]
         /\ sem' = held
         /\ inflight' = inflight \cup
                 {Request(BulkId, i, items[i].url, session_scope(BulkId, bulk.sess))}
         /\ sent' = [sent EXCEPT ![<<BulkId, i>>] = @ + 1]
         /\ UNCHANGED completed

\* the tasks run while the call awaits gather, and go on running after
\* gather has passed the first exception on to the call
ItemsRun == bulk.pc \in {"gathering", "failed", "cancelled"}

\* _fetch_one enters async with semaphore (any waiting item may be the one
\* that gets the free slot), then sleeps its delay or starts its fetch
ItemAcquire(i) ==
    /\ ItemsRun
    /\ i \in ItemIds
    /\ items[i].pc = "waiting"
    /\ ~semaphore_locked(sem)
    /\ IF bulk.delay > 0
       THEN /\ items' = [items EXCEPT ![i].pc = "sleeping"]
            /\ sem' = semaphore_acquire(sem)
            /\ UNCHANGED <<inflight, completed, sent>>
       ELSE FetchOneStart(i, semaphore_acquire(sem))
    /\ UNCHANGED <<lifespan, shared, calls, eph, bulk, pureVars>>

\* asyncio.sleep(params.delay) is over
ItemWake(i) ==
    /\ ItemsRun
    /\ i \in ItemIds
    /\ items[i].pc = "sleeping"
    /\ FetchOneStart(i, sem)
    /\ UNCHANGED <<lifespan, shared, calls, eph, bulk, pureVars>>

\* _fetch_one: except FetchError
fetch_one_catches(err) == err.type = "FetchError"

\* session.request of item i ends with outcome o: the rest of _fetch and of
\* _fetch_one
ItemRespond(i, o) ==
    /\ ItemsRun
    /\ i \in ItemIds
    /\ items[i].pc = "inflight"
    /\ LET res == fetch_outcome(o)
       IN  /\ items' = [items EXCEPT ![i] =
                   IF res = Ok THEN Item("ok", items[i].url, Ok)
                   ELSE IF fetch_one_catches(res) THEN Item("error", items[i].url, res)
                   ELSE Item("raised", items[i].url, res)]
           /\ sem' = semaphore_exit(sem, IF res = Ok \/ fetch_one_catches(res)
                                         THEN "return" ELSE "exception")
    /\ inflight' = {r \in inflight : ~(r.call = BulkId /\ r.item = i)}
    /\ completed' = Append(completed, i)
    /\ UNCHANGED <<lifespan, shared, calls, eph, bulk, sent, pureVars>>

\* the dict _fetch_one returns
Entry(item) == [url |-> item.url, status |-> item.pc]

gather_results_as_completed(its, order) == [k \in 1..Len(order) |-> Entry(its[order[k]])]

\* asyncio.gather: the results in the order of the awaitables; order is the
\* order in which the tasks finished
gather_results(its, order) == [i \in 1..Len(its) |-> Entry(its[i])]

\* every task has returned: gather returns, the session scope is left and
\* the call returns json.dumps(list(results))
GatherReturn ==
    /\ bulk.pc = "gathering"
    /\ items # <<>>
    /\ \A i \in ItemIds : items[i].pc \in {"ok", "error"}
    /\ bulk' = [bulk EXCEPT !.pc = "returned", !.results = gather_results(items, completed)]
    /\ eph' = [eph EXCEPT ![BulkId] = session_scope_exit(bulk.sess, "return")]
    /\ shared' = SharedAfter(bulk.sess)
    /\ UNCHANGED <<lifespan, calls, inflight, items, sem, completed, sent, pureVars>>

\* a task has raised: gather raises its exception in the call at once, the
\* other tasks are left running; the session scope is left and the call fails
GatherRaise(i) ==
    /\ bulk.pc = "gathering"
    /\ i \in ItemIds
    /\ items[i].pc = "raised"
    /\ \A j \in ItemIds : items[j].pc = "raised" =>
            \E k, l \in 1..Len(completed) : completed[k] = i /\ completed[l] = j /\ k <= l
    /\ bulk' = [bulk EXCEPT !.pc = "failed", !.err = items[i].err]
    /\ eph' = [eph EXCEPT ![BulkId] = session_scope_exit(bulk.sess, "exception")]
    /\ shared' = SharedAfter(bulk.sess)
    /\ UNCHANGED <<lifespan, calls, inflight, items, sem, completed, sent, pureVars>>

\* the host cancels the call while it awaits gather. With no task failed
\* yet, gather cancels every unfinished task and ends when they have ended;
\* with gather already failed, the call alone gets the CancelledError
CancelBulk ==
    /\ bulk.pc = "gathering"
    /\ IF \E i \in ItemIds : items[i].pc = "raised"
       THEN /\ bulk' = [bulk EXCEPT !.pc = "cancelled",
                                    !.err = Err("CancelledError", "cancelled")]
            /\ eph' = [eph EXCEPT ![BulkId] = session_scope_exit(bulk.sess, "cancel")]
            /\ shared' = SharedAfter(bulk.sess)
       ELSE /\ bulk' = [bulk EXCEPT !.pc = "cancelling"]
            /\ UNCHANGED <<eph, shared>>
    /\ UNCHANGED <<lifespan, calls, inflight, items, sem, completed, sent, pureVars>>

\* a cancelled task gets its CancelledError where it is suspended: waiting
\* for the semaphore, in asyncio.sleep or in session.request
ItemCancelled(i) ==
    /\ bulk.pc = "cancelling"
    /\ i \in ItemIds
    /\ items[i].pc \in {"waiting", "sleeping", "inflight"}
    /\ items' = [items EXCEPT ![i] =
            Item("cancelled", items[i].url, Err("CancelledError", items[i].pc))]
    /\ sem' = IF items[i].pc = "waiting" THEN sem ELSE semaphore_exit(sem, "cancel")
    /\ inflight' = {r \in inflight : ~(r.call = BulkId /\ r.item = i)}
    /\ completed' = Append(completed, i)
    /\ UNCHANGED <<lifespan, shared, calls, eph, bulk, sent, pureVars>>

\* every cancelled task has ended: gather raises CancelledError in the call,
\* the session scope is left
GatherCancelled ==
    /\ bulk.pc = "cancelling"
    /\ AllStopped
    /\ bulk' = [bulk EXCEPT !.pc = "cancelled", !.err = Err("CancelledError", "cancelled")]
    /\ eph' = [eph EXCEPT ![BulkId] = session_scope_exit(bulk.sess, "cancel")]
    /\ shared' = SharedAfter(bulk.sess)
    /\ UNCHANGED <<lifespan, calls, inflight, items, sem, completed, sent, pureVars>>

\* the host takes the outcome of the ended call, once its tasks have ended
CollectBulk ==
    /\ bulk.pc \in {"rejected", "failed", "returned", "cancelled"}
    /\ AllStopped
    /\ bulk' = IdleBulk
    /\ items' = <<>>
    /\ sem' = 0
    /\ completed' = <<>>
    /\ eph' = [eph EXCEPT ![BulkId] = "none"]
    /\ sent' = [s \in Slots |-> IF s[1] = BulkId THEN 0 ELSE sent[s]]
    /\ UNCHANGED <<lifespan, shared, calls, inflight, pureVars>>

\* ------------------------------------------------------------ specifications
LifespanNext ==
    \/ LifespanEnter
    \/ \E how \in {"return", "exception"} : LifespanExit(how)

CallsNext ==
    \/ \E c \in Calls : StartCall(c)
    \/ \E c \in Calls, o \in Outcomes, feedParses \in BOOLEAN : Respond(c, o, feedParses)
    \/ \E c \in Calls : Cancel(c)
    \/ \E c \in Calls : Collect(c)

BulkNext ==
    \/ StartBulk
    \/ \E i \in 1..MaxUrls : ItemAcquire(i)
    \/ \E i \in 1..MaxUrls : ItemWake(i)
    \/ \E i \in 1..MaxUrls, o \in Outcomes : ItemRespond(i, o)
    \/ GatherReturn
    \/ \E i \in 1..MaxUrls : GatherRaise(i)
    \/ CancelBulk
    \/ \E i \in 1..MaxUrls : ItemCancelled(i)
    \/ GatherCancelled
    \/ CollectBulk

Next == LifespanNext \/ CallsNext \/ BulkNext

\* the server: its lifespan, the single-URL tool calls and the fetch_bulk call
Spec == Init /\ [][Next]_vars

NextBulk == LifespanNext \/ BulkNext

\* the server with fetch_bulk calls alone
SpecBulk == Init /\ [][NextBulk]_vars

\* ================================================================ functions
\* The functions of the client, the parser and the tools that a claim is
\* about on their own. Each is applied to inputs drawn from a bounded set:
\* pure.args holds the input, pure.result what the function gave.

\* ------------------------------------------------------------------ bounds
\* length of the strings handed to _truncate
MaxStrLen == 4

\* ------------------------------------------------------- string formatting
DigitChar == <<"0", "1", "2", "3", "4", "5", "6", "7", "8", "9">>

RECURSIVE Digits(_)
\* the decimal digits of n >= 0
Digits(n) == IF n < 10 THEN <<DigitChar[n + 1]>> ELSE Digits(n \div 10) \o <<DigitChar[(n % 10) + 1]>>

\* f"{n}" of an int
str_int(n) == IF n < 0 THEN <<"-">> \o Digits(0 - n) ELSE Digits(n)

\* the literal "[truncated at 0 chars]"
TruncatedAtZero ==
    <<"[", "t", "r", "u", "n", "c", "a", "t", "e", "d", " ", "a", "t", " ", "0", " ",
      "c", "h", "a", "r", "s", "]">>

\* the literal "[truncated at " of the f-string
TruncatedAt ==
    <<"[", "t", "r", "u", "n", "c", "a", "t", "e", "d", " ", "a", "t", " ">>

\* the literal " chars]" of the f-string
CharsSuffix ==
    <<" ", "c", "h", "a", "r", "s", "]">>

\* ---------------------------------------------------------------- _truncate
client_truncate_no_rstrip(value, max_chars) ==
    IF max_chars <= 0 THEN TruncatedAtZero
    ELSE IF Len(value) <= max_chars THEN value
    ELSE SubSeq(value, 1, max_chars) \o <<"\n">> \o TruncatedAt \o str_int(max_chars)
             \o CharsSuffix

\* client._truncate
client_truncate(value, max_chars) ==
    IF max_chars <= 0 THEN TruncatedAtZero
    ELSE IF Len(value) <= max_chars THEN value
    ELSE RStrip(SubSeq(value, 1, max_chars)) \o <<"\n">> \o TruncatedAt \o str_int(max_chars)
             \o CharsSuffix

\* parser._truncate
parser_truncate(value, max_chars) ==
    IF max_chars <= 0 THEN TruncatedAtZero
    ELSE IF Len(value) <= max_chars THEN value
    ELSE LET truncated == RStrip(SubSeq(value, 1, max_chars))
         IN  truncated \o <<"\n">> \o TruncatedAt \o str_int(max_chars) \o CharsSuffix

\* server._truncate
server_truncate(value, max_chars) ==
    IF max_chars <= 0 THEN TruncatedAtZero
    ELSE IF Len(value) <= max_chars THEN value
    ELSE RStrip(SubSeq(value, 1, max_chars)) \o <<"\n">> \o TruncatedAt \o str_int(max_chars)
             \o CharsSuffix

\* the strings and the limits the three copies are applied to
TruncateInputs ==
    [value : SeqsUpTo({"a", " ", "\n"}, MaxStrLen), max_chars : (0 - 1)..(MaxStrLen + 1)]

\* no copy has been applied yet
TruncatePending == [client |-> Null, parser |-> Null, server |-> Null]

InitTruncate ==
    /\ MainInit
    /\ robots = NoRobots
    /\ \E a \in TruncateInputs :
          pure = [fn |-> "truncate", args |-> a, result |-> TruncatePending]

ClientTruncate ==
    /\ pure.fn = "truncate"
    /\ pure.result.client = Null
    /\ pure' = [pure EXCEPT !.result.client =
                   client_truncate(pure.args.value, pure.args.max_chars)]
    /\ UNCHANGED <<mainVars, robots>>

ParserTruncate ==
    /\ pure.fn = "truncate"
    /\ pure.result.parser = Null
    /\ pure' = [pure EXCEPT !.result.parser =
                   parser_truncate(pure.args.value, pure.args.max_chars)]
    /\ UNCHANGED <<mainVars, robots>>

ServerTruncate ==
    /\ pure.fn = "truncate"
    /\ pure.result.server = Null
    /\ pure' = [pure EXCEPT !.result.server =
                   server_truncate(pure.args.value, pure.args.max_chars)]
    /\ UNCHANGED <<mainVars, robots>>

NextTruncate == ClientTruncate \/ ParserTruncate \/ ServerTruncate

\* the three copies of _truncate, applied in any order
SpecTruncate == InitTruncate /\ [][NextTruncate]_vars

\* -------------------------------------------------------------------- _fetch
\* _fetch: _truncate(text, max_chars=300) for the snippet of an HTTP error
SnippetMaxChars == 300

\* _handle_error: the message for Timeout
TimedOutMsg ==
    <<"R", "e", "q", "u", "e", "s", "t", " ", "t", "i", "m", "e", "d", " ", "o", "u",
      "t", ".", " ", "T", "r", "y", " ", "i", "n", "c", "r", "e", "a", "s", "i", "n",
      "g", " ", "t", "h", "e", " ", "t", "i", "m", "e", "o", "u", "t", " ", "v", "a",
      "l", "u", "e", ".">>

\* _handle_error: the message for DNSError and ConnectionError
ConnectionFailedMsg ==
    <<"D", "N", "S", "/", "c", "o", "n", "n", "e", "c", "t", "i", "o", "n", " ", "f",
      "a", "i", "l", "e", "d", ".", " ", "C", "h", "e", "c", "k", " ", "t", "h", "a",
      "t", " ", "t", "h", "e", " ", "U", "R", "L", " ", "i", "s", " ", "c", "o", "r",
      "r", "e", "c", "t", " ", "a", "n", "d", " ", "r", "e", "a", "c", "h", "a", "b",
      "l", "e", ".">>

\* _handle_error: the message for SSLError, CertificateVerifyError, ImpersonateError
TlsErrorMsg ==
    <<"T", "L", "S", "/", "i", "m", "p", "e", "r", "s", "o", "n", "a", "t", "i", "o",
      "n", " ", "e", "r", "r", "o", "r", ".", " ", "T", "r", "y", " ", "a", " ", "d",
      "i", "f", "f", "e", "r", "e", "n", "t", " ", "i", "m", "p", "e", "r", "s", "o",
      "n", "a", "t", "e", " ", "t", "a", "r", "g", "e", "t", " ", "o", "r", " ", "v",
      "e", "r", "i", "f", "y", " ", "c", "e", "r", "t", "i", "f", "i", "c", "a", "t",
      "e", "s", ".">>

\* _handle_error: the fallback f-string
RequestFailedPrefix ==
    <<"R", "e", "q", "u", "e", "s", "t", " ", "f", "a", "i", "l", "e", "d", ":", " ">>

ColonSpace ==
    <<":", " ">>

\* _handle_error: the f-strings of an HTTP error
HttpWord ==
    <<"H", "T", "T", "P", " ">>

ErrorSnippetInfix ==
    <<" ", "e", "r", "r", "o", "r", ".", " ", "R", "e", "s", "p", "o", "n", "s", "e",
      " ", "s", "n", "i", "p", "p", "e", "t", ":", " ">>

ErrorDot ==
    <<" ", "e", "r", "r", "o", "r", ".">>

\* _fetch: the f-string of line 152
InvalidOptionsPrefix ==
    <<"I", "n", "v", "a", "l", "i", "d", " ", "c", "u", "r", "l", "_", "c", "f", "f",
      "i", " ", "o", "p", "t", "i", "o", "n", "s", ":", " ">>

\* _fetch: the ValueError of line 130
OnlyHttpMsg ==
    <<"O", "n", "l", "y", " ", "h", "t", "t", "p", "/", "h", "t", "t", "p", "s", " ",
      "U", "R", "L", "s", " ", "a", "r", "e", " ", "s", "u", "p", "p", "o", "r", "t",
      "e", "d", ".">>

\* urlparse: the ValueError of a bracket without its partner
InvalidIPv6Msg ==
    <<"I", "n", "v", "a", "l", "i", "d", " ", "I", "P", "v", "6", " ", "U", "R", "L">>

\* _to_curl_option_key: the f-string of line 43
UnsupportedKeyPrefix ==
    <<"U", "n", "s", "u", "p", "p", "o", "r", "t", "e", "d", " ", "c", "u", "r", "l",
      " ", "o", "p", "t", "i", "o", "n", " ", "k", "e", "y", ":", " ">>

UnsupportedKeySuffix ==
    <<".", " ", "U", "s", "e", " ", "C", "u", "r", "l", "O", "p", "t", " ", "n", "a",
      "m", "e", "s", " ", "(", "e", ".", "g", ".", ",", " ", "T", "I", "M", "E", "O",
      "U", "T", "_", "M", "S", ")", ".">>

\* the text of the option name BOGUS
BogusText ==
    <<"B", "O", "G", "U", "S">>

TimeoutMsText ==
    <<"T", "I", "M", "E", "O", "U", "T", "_", "M", "S">>

\* str(option) of a curl option name
OptionText(option) == IF option = "TIMEOUT_MS" THEN TimeoutMsText ELSE BogusText

\* an exception raised by session.request: its class, the classes it is an
\* instance of, type(error).__name__ and str(error)
Raised(class, bases, name, msg) ==
    [kind |-> "exception", class |-> class, classes |-> {class} \cup bases,
     name |-> name, msg |-> msg, status |-> 0, text |-> <<>>]

\* a response of session.request
Response(status, text) ==
    [kind |-> "response", class |-> "none", classes |-> {}, name |-> <<>>, msg |-> <<>>,
     status |-> status, text |-> text]

\* session.request has not been awaited
NoOutcome ==
    [kind |-> "none", class |-> "none", classes |-> {}, name |-> <<>>, msg |-> <<>>,
     status |-> 0, text |-> <<>>]

\* "x" * n
Repeat(ch, n) == [i \in 1..n |-> ch]

\* _handle_error; status_code is <<>> for None and <<n>> for the int n, the
\* error is given by the classes it is an instance of
handle_error(error, status_code, response_snippet) ==
    IF status_code # <<>> /\ status_code[1] >= 400
    THEN LET snippet == Strip(IF response_snippet = Null THEN <<>> ELSE response_snippet)
         IN  IF snippet # <<>>
             THEN HttpWord \o str_int(status_code[1]) \o ErrorSnippetInfix \o snippet
             ELSE HttpWord \o str_int(status_code[1]) \o ErrorDot
    ELSE IF "Timeout" \in error.classes THEN TimedOutMsg
    ELSE IF error.classes \cap {"DNSError", "ConnectionError"} # {} THEN ConnectionFailedMsg
    ELSE IF error.classes \cap {"SSLError", "CertificateVerifyError", "ImpersonateError"} # {}
    THEN TlsErrorMsg
    ELSE RequestFailedPrefix \o error.name \o ColonSpace \o error.msg

\* what _fetch has come to: awaiting session.request, raised, or returned
FetchState(kind, type, msg, status_code, text, outcome) ==
    [kind |-> kind, type |-> type, msg |-> msg, status_code |-> status_code,
     text |-> text, outcome |-> outcome]

FetchRaise(type, msg, outcome) == FetchState("raise", type, msg, 0, <<>>, outcome)

\* _fetch lines 128-150: urlparse, the scheme check, _normalize_options (which
\* raises ValueError for an unknown curl option name), then session.request
fetch_begin(url, curl_options) ==
    IF urlparse(url).raises THEN FetchRaise("ValueError", InvalidIPv6Msg, NoOutcome)
    ELSE IF ~scheme_allowed(urlparse(url).scheme) THEN FetchRaise("ValueError", OnlyHttpMsg, NoOutcome)
    ELSE IF curl_options # Null
            /\ \E i \in 1..Len(curl_options) : to_curl_option_key_raises(curl_options[i])
    THEN LET i == CHOOSE i \in 1..Len(curl_options) :
                     /\ to_curl_option_key_raises(curl_options[i])
                     /\ \A j \in 1..(i - 1) : ~to_curl_option_key_raises(curl_options[j])
         IN  FetchRaise("ValueError",
                        UnsupportedKeyPrefix \o OptionText(curl_options[i])
                            \o UnsupportedKeySuffix, NoOutcome)
    ELSE FetchState("awaiting", "none", <<>>, 0, <<>>, NoOutcome)

is_http_error_above(status_code) == status_code > 400

\* _fetch line 157
is_http_error(status_code) == status_code >= 400

\* _fetch lines 151-172, o being what session.request did
fetch_end(o, max_chars) ==
    IF o.kind = "exception"
    THEN IF o.classes \cap {"TypeError", "ValueError"} # {}
         THEN FetchRaise("FetchError", InvalidOptionsPrefix \o o.msg, o)
         ELSE IF "RequestException" \in o.classes
         THEN FetchRaise("FetchError", handle_error(o, <<>>, Null), o)
         ELSE FetchRaise(o.class, o.msg, o)
    ELSE IF is_http_error(o.status)
    THEN FetchRaise("FetchError",
                    handle_error(Raised("RuntimeError", {}, <<>>, <<>>), <<o.status>>,
                                 client_truncate(o.text, SnippetMaxChars)), o)
    ELSE FetchState("return", "FetchResult", <<>>, o.status,
                    client_truncate(o.text, max_chars), o)

TimeoutText ==
    <<"T", "i", "m", "e", "o", "u", "t">>

DNSErrorText ==
    <<"D", "N", "S", "E", "r", "r", "o", "r">>

ConnectionErrorText ==
    <<"C", "o", "n", "n", "e", "c", "t", "i", "o", "n", "E", "r", "r", "o", "r">>

SSLErrorText ==
    <<"S", "S", "L", "E", "r", "r", "o", "r">>

CertificateVerifyErrorText ==
    <<"C", "e", "r", "t", "i", "f", "i", "c", "a", "t", "e", "V", "e", "r", "i", "f",
      "y", "E", "r", "r", "o", "r">>

ImpersonateErrorText ==
    <<"I", "m", "p", "e", "r", "s", "o", "n", "a", "t", "e", "E", "r", "r", "o", "r">>

TooManyRedirectsText ==
    <<"T", "o", "o", "M", "a", "n", "y", "R", "e", "d", "i", "r", "e", "c", "t", "s">>

BoomText ==
    <<"b", "o", "o", "m">>

\* the exceptions session.request raises, with the classes of
\* curl_cffi.requests.exceptions they derive from (DNSError and SSLError
\* derive from ConnectionError, CertificateVerifyError from SSLError), and
\* the TypeError or ValueError of an option the transport refuses
FetchExceptions ==
    {Raised("Timeout", {"RequestException"}, TimeoutText, BoomText),
     Raised("DNSError", {"ConnectionError", "RequestException"}, DNSErrorText, BoomText),
     Raised("ConnectionError", {"RequestException"}, ConnectionErrorText, BoomText),
     Raised("SSLError", {"ConnectionError", "RequestException"}, SSLErrorText, BoomText),
     Raised("CertificateVerifyError", {"SSLError", "ConnectionError", "RequestException"},
            CertificateVerifyErrorText, BoomText),
     Raised("ImpersonateError", {"RequestException"}, ImpersonateErrorText, BoomText),
     Raised("TooManyRedirects", {"RequestException"}, TooManyRedirectsText, BoomText),
     Raised("TypeError", {}, <<>>, BoomText),
     Raised("ValueError", {}, <<>>, BoomText)}

\* response bodies: empty, blank, short, and around the 300 characters of
\* the snippet
FetchTexts ==
    {<<>>, <<" ">>, <<"a", "b">>, <<" ", "a", "b", "\n">>,
     Repeat("x", SnippetMaxChars), Repeat("x", SnippetMaxChars + 1),
     Repeat(" ", SnippetMaxChars + 1), Repeat("x", SnippetMaxChars - 1) \o <<" ", "y">>}

FetchStatuses == {200, 399, 400, 404, 500}

\* what session.request may do
FetchOutcomes ==
    {Response(status, text) : status \in FetchStatuses, text \in FetchTexts}
    \cup FetchExceptions

FetchInputs ==
    [url : {HttpA, FtpA},
     curl_options : {Null, <<"TIMEOUT_MS">>, <<"BOGUS">>, <<"TIMEOUT_MS", "BOGUS">>},
     max_chars : {0, 2, SnippetMaxChars + 100}]

\* _fetch has been called and has not run yet
FetchPending == FetchState("pending", "none", <<>>, 0, <<>>, NoOutcome)

InitFetch ==
    /\ MainInit
    /\ robots = NoRobots
    /\ \E a \in FetchInputs : pure = [fn |-> "fetch", args |-> a, result |-> FetchPending]

\* _fetch up to the await of session.request
FetchBegin ==
    /\ pure.fn = "fetch"
    /\ pure.result.kind = "pending"
    /\ pure' = [pure EXCEPT !.result = fetch_begin(pure.args.url, pure.args.curl_options)]
    /\ UNCHANGED <<mainVars, robots>>

\* session.request has ended with outcome o: the rest of _fetch
FetchEnd(o) ==
    /\ pure.fn = "fetch"
    /\ pure.result.kind = "awaiting"
    /\ pure' = [pure EXCEPT !.result = fetch_end(o, pure.args.max_chars)]
    /\ UNCHANGED <<mainVars, robots>>

NextFetch == FetchBegin \/ \E o \in FetchOutcomes : FetchEnd(o)

\* one call of _fetch
SpecFetch == InitFetch /\ [][NextFetch]_vars

\* ------------------------------------------------------------ request options
\* An optional value is <<>> for None and <<v>> for the value v. A dict is a
\* function from its keys to its values.

\* the fields of RequestOptionsInput followed here, by their aliases ("json"
\* is the alias of json_body); curl_options is kept apart
OptionKeys == {"headers", "impersonate", "timeout", "allow_redirects", "referer", "json"}

EmptyDict == [k \in {} |-> <<>>]

\* the dict a list of CurlOptionInput entries becomes: {entry["option"]:
\* entry["value"]}, a later entry replacing an earlier one of the same option
curl_options_dict(entries) ==
    [o \in {entries[i].option : i \in 1..Len(entries)} |->
        entries[CHOOSE i \in 1..Len(entries) :
                    /\ entries[i].option = o
                    /\ \A j \in (i + 1)..Len(entries) : entries[j].option # o].value]

\* _options_to_dict: model_dump(exclude_none=True, by_alias=True), with a
\* non-empty curl_options list turned into a dict and an empty one dropped
options_to_dict(options) ==
    IF options = <<>> THEN EmptyDict
    ELSE LET rec == options[1]
             data == [k \in {k \in OptionKeys : rec[k] # <<>>} |-> rec[k]]
         IN  IF rec.curl_options # <<>> /\ rec.curl_options[1] # <<>>
             THEN [k \in DOMAIN data \cup {"curl_options"} |->
                      IF k = "curl_options" THEN <<curl_options_dict(rec.curl_options[1])>>
                      ELSE data[k]]
             ELSE data

merge_request_options_keeps(request_options, overrides) ==
    LET merged == options_to_dict(request_options)
        result == [k \in DOMAIN merged \cup {k \in DOMAIN overrides : overrides[k] # <<>>} |->
                      IF k \in DOMAIN merged THEN merged[k] ELSE overrides[k]]
    IN  IF DOMAIN result = {} THEN <<>> ELSE <<result>>

\* _merge_request_options: every override that is not None is set in the
\* dict of the request options; "merged or None"
merge_request_options(request_options, overrides) ==
    LET merged == options_to_dict(request_options)
        result == [k \in DOMAIN merged \cup {k \in DOMAIN overrides : overrides[k] # <<>>} |->
                      IF k \in DOMAIN overrides /\ overrides[k] # <<>>
                      THEN overrides[k] ELSE merged[k]]
    IN  IF DOMAIN result = {} THEN <<>> ELSE <<result>>

\* _normalize_curl_options raises ValueError for an option name
\* _to_curl_option_key does not know
normalize_options_raises(options) ==
    /\ options # <<>>
    /\ "curl_options" \in DOMAIN options[1]
    /\ options[1]["curl_options"] # <<>>
    /\ \E o \in DOMAIN options[1]["curl_options"][1] : to_curl_option_key_raises(o)

\* _normalize_options: {} for None or an empty dict, else the entries whose
\* value is not None
normalize_options(options) ==
    IF options = <<>> THEN EmptyDict
    ELSE [k \in {k \in DOMAIN options[1] : options[1][k] # <<>>} |-> options[1][k]]

\* dict d with d[k] = <<v>>
DictSet(d, k, v) == [x \in DOMAIN d \cup {k} |-> IF x = k THEN <<v>> ELSE d[x]]

\* _fetch lines 132-147: the keyword arguments of session.request; the body
\* is given by its type ("dict", "list", or another)
request_kwargs(request_options, headers, impersonate, timeout, follow_redirects, body) ==
    LET k0 == normalize_options(request_options)
        k1 == IF headers # <<>> THEN DictSet(k0, "headers", headers[1]) ELSE k0
        k2 == IF impersonate # <<>> THEN DictSet(k1, "impersonate", impersonate[1]) ELSE k1
        k3 == IF timeout # <<>> THEN DictSet(k2, "timeout", timeout[1]) ELSE k2
        k4 == IF follow_redirects # <<>>
              THEN DictSet(k3, "allow_redirects", follow_redirects[1]) ELSE k3
    IN  IF body # <<>> /\ "json" \notin DOMAIN k4 /\ "data" \notin DOMAIN k4
        THEN IF body[1] \in {"dict", "list"} THEN DictSet(k4, "json", body[1])
             ELSE DictSet(k4, "data", body[1])
        ELSE k4

\* the overrides each kind of tool hands to _merge_request_options: the tools
\* with headers, timeout and follow_redirects (fetch_page, fetch_headers),
\* fetch_json, the tools with impersonate alone, and fetch_bulk; impersonate,
\* timeout and follow_redirects have defaults and are never None
tool_overrides(tool, headers) ==
    CASE tool \in {"fetch_page", "fetch_headers"} ->
             [k \in {"headers", "impersonate", "timeout", "allow_redirects"} |->
                 IF k = "headers" THEN headers ELSE <<"call">>]
      [] tool = "fetch_json" ->
             [k \in {"headers", "impersonate"} |-> IF k = "headers" THEN headers ELSE <<"call">>]
      [] tool = "fetch_bulk" -> [k \in {"impersonate", "timeout"} |-> <<"call">>]
      [] OTHER -> [k \in {"impersonate"} |-> <<"call">>]

\* lists of CurlOptionInput entries: none, empty, one known option, one
\* option twice, an unknown option
CurlOptionLists ==
    {<<>>, <<<<>>>>,
     <<<<[option |-> "TIMEOUT_MS", value |-> 1]>>>>,
     <<<<[option |-> "TIMEOUT_MS", value |-> 1], [option |-> "TIMEOUT_MS", value |-> 2]>>>>,
     <<<<[option |-> "BOGUS", value |-> 1]>>>>}

\* RequestOptionsInput instances: every field None or set
RequestOptionsInputs ==
    {<<>>} \cup
    {<<[k \in OptionKeys \cup {"curl_options"} |->
          IF k = "curl_options" THEN c ELSE IF k \in set THEN <<"ro">> ELSE <<>>]>> :
        set \in SUBSET OptionKeys, c \in CurlOptionLists}

\* the tool calls as far as their options go: the tool, its headers, its
\* request_options and, for fetch_json, the parsed body
MergeInputs ==
    {[tool |-> t, headers |-> h, request_options |-> ro, body |-> <<>>] :
        t \in {"fetch_page", "fetch_text"}, h \in {<<>>, <<"call">>},
        ro \in RequestOptionsInputs}
    \cup {[tool |-> "fetch_json", headers |-> h, request_options |-> ro, body |-> b] :
            h \in {<<>>, <<"call">>}, ro \in RequestOptionsInputs,
            b \in {<<>>, <<"list">>, <<"str">>}}
    \cup {[tool |-> "fetch_bulk", headers |-> <<>>, request_options |-> <<>>, body |-> <<>>]}

MergePending == [pc |-> "called", merged |-> <<>>, kwargs |-> EmptyDict]

InitMerge ==
    /\ MainInit
    /\ robots = NoRobots
    /\ \E a \in MergeInputs : pure = [fn |-> "merge", args |-> a, result |-> MergePending]

\* the tool builds request_options with _merge_request_options
MergeRequestOptions ==
    /\ pure.fn = "merge"
    /\ pure.result.pc = "called"
    /\ pure' = [pure EXCEPT !.result.pc = "merged",
                            !.result.merged =
                                merge_request_options(pure.args.request_options,
                                    tool_overrides(pure.args.tool, pure.args.headers))]
    /\ UNCHANGED <<mainVars, robots>>

\* _fetch builds the keyword arguments of session.request from them, or
\* raises ValueError for an unknown curl option; the tools pass no headers,
\* impersonate, timeout or follow_redirects of their own to _fetch
BuildRequestKwargs ==
    /\ pure.fn = "merge"
    /\ pure.result.pc = "merged"
    /\ IF normalize_options_raises(pure.result.merged)
       THEN pure' = [pure EXCEPT !.result.pc = "raised"]
       ELSE pure' = [pure EXCEPT !.result.pc = "requested",
                                 !.result.kwargs =
                                     request_kwargs(pure.result.merged, <<>>, <<>>, <<>>, <<>>,
                                                    pure.args.body)]
    /\ UNCHANGED <<mainVars, robots>>

NextMerge == MergeRequestOptions \/ BuildRequestKwargs

\* the options of one tool call, from the input models to session.request
SpecMerge == InitMerge /\ [][NextMerge]_vars

\* ------------------------------------------------------------- fetch_json
\* DEFAULT_MAX_CHARS, 100_000 in client.py, scaled down to the length of the
\* response bodies followed here
DEFAULT_MAX_CHARS == 4

NotValidJsonWarning ==
    <<"W", "a", "r", "n", "i", "n", "g", ":", " ", "r", "e", "s", "p", "o", "n", "s",
      "e", " ", "w", "a", "s", " ", "n", "o", "t", " ", "v", "a", "l", "i", "d", " ",
      "J", "S", "O", "N", ";", " ", "r", "e", "t", "u", "r", "n", "i", "n", "g", " ",
      "r", "a", "w", " ", "c", "o", "n", "t", "e", "n", "t", ".">>

\* the tokens of a JSON text over 1 [ ] , : the text without its whitespace
JsonTokens(text) == SelectSeq(text, LAMBDA ch : ch \notin Whitespace)

RECURSIVE DumpTokens(_, _, _)
\* json.dumps(value, indent=2) of the value with the given tokens, from
\* token i on at nesting depth: an empty list is "[]", every element of a
\* list is on a line of its own, indented by two blanks for each level
DumpTokens(tokens, i, depth) ==
    IF i > Len(tokens) THEN <<>>
    ELSE CASE tokens[i] = "[" ->
                  IF tokens[i + 1] = "]"
                  THEN <<"[", "]">> \o DumpTokens(tokens, i + 2, depth)
                  ELSE <<"[", "\n">> \o Repeat(" ", 2 * (depth + 1))
                           \o DumpTokens(tokens, i + 1, depth + 1)
           [] tokens[i] = "," ->
                  <<",", "\n">> \o Repeat(" ", 2 * depth) \o DumpTokens(tokens, i + 1, depth)
           [] tokens[i] = "]" ->
                  <<"\n">> \o Repeat(" ", 2 * (depth - 1)) \o <<"]">>
                      \o DumpTokens(tokens, i + 1, depth - 1)
           [] OTHER -> <<tokens[i]>> \o DumpTokens(tokens, i + 1, depth)

\* json.dumps(json.loads(text), indent=2) for a text json.loads accepts
json_dumps_indent(text) == DumpTokens(JsonTokens(text), 1, 0)

\* max(params.max_chars * 2, DEFAULT_MAX_CHARS)
fetch_json_max_chars(max_chars) ==
    IF max_chars * 2 >= DEFAULT_MAX_CHARS THEN max_chars * 2 ELSE DEFAULT_MAX_CHARS

\* _stealth_fetch_json_impl lines 727-732: the text of the FetchResult pretty
\* printed, or after the warning when json.loads raises JSONDecodeError, cut
\* by _truncate
format_json(text, max_chars) ==
    IF json_loads_ok(text)
    THEN server_truncate(json_dumps_indent(text), max_chars)
    ELSE server_truncate(NotValidJsonWarning \o <<"\n">> \o text, max_chars)

\* response bodies: every string over 1 [ ] , and the blank one character
\* longer than DEFAULT_MAX_CHARS at most
JsonBodies == SeqsUpTo({"1", "[", "]", ",", " "}, DEFAULT_MAX_CHARS + 1)

\* max_chars is gt=0; 70 leaves room for the whole warning line
FetchJsonInputs == [body : JsonBodies, status : {200, 404}, max_chars : {1, 2, 3, 70}]

FetchJsonPending == [pc |-> "called", text |-> <<>>, out |-> <<>>]

InitFetchJson ==
    /\ MainInit
    /\ robots = NoRobots
    /\ \E a \in FetchJsonInputs :
          pure = [fn |-> "fetch_json", args |-> a, result |-> FetchJsonPending]

\* _fetch answers with the text of the response cut at
\* max(max_chars * 2, DEFAULT_MAX_CHARS), or raises FetchError for a status
\* of 400 and above
FetchJsonFetch ==
    /\ pure.fn = "fetch_json"
    /\ pure.result.pc = "called"
    /\ LET r == fetch_end(Response(pure.args.status, pure.args.body),
                          fetch_json_max_chars(pure.args.max_chars))
       IN  IF r.kind = "raise"
           THEN pure' = [pure EXCEPT !.result.pc = "failed", !.result.out = r.msg]
           ELSE pure' = [pure EXCEPT !.result.pc = "fetched", !.result.text = r.text]
    /\ UNCHANGED <<mainVars, robots>>

\* the tool formats the text and returns
FetchJsonFormat ==
    /\ pure.fn = "fetch_json"
    /\ pure.result.pc = "fetched"
    /\ pure' = [pure EXCEPT !.result.pc = "returned",
                            !.result.out = format_json(pure.result.text, pure.args.max_chars)]
    /\ UNCHANGED <<mainVars, robots>>

NextFetchJson == FetchJsonFetch \/ FetchJsonFormat

\* stealth_fetch_json from the answer of the transport on
SpecFetchJson == InitFetchJson /\ [][NextFetchJson]_vars

\* ---------------------------------------------------------- parse_robots_txt
\* lines of the robots.txt texts followed here
MaxLines == 4

\* str.splitlines() of a text whose only line break is "\n"
RECURSIVE splitlines(_)
splitlines(text) ==
    IF text = <<>> THEN <<>>
    ELSE IF ~Contains(text, "\n") THEN <<text>>
    ELSE <<SubSeq(text, 1, Find(text, "\n", 1) - 1)>>
             \o splitlines(SubSeq(text, Find(text, "\n", 1) + 1, Len(text)))

\* raw_line.split("#")[0].strip()
robots_line(raw_line) ==
    Strip(IF Contains(raw_line, "#") THEN SubSeq(raw_line, 1, Find(raw_line, "#", 1) - 1)
          ELSE raw_line)

\* key of line.partition(":"), stripped and lowered
robots_key(line) == Lower(Strip(SubSeq(line, 1, Find(line, ":", 1) - 1)))

\* value of line.partition(":"), stripped
robots_value(line) == Strip(SubSeq(line, Find(line, ":", 1) + 1, Len(line)))

UserAgentKey == <<"u", "s", "e", "r", "-", "a", "g", "e", "n", "t">>
DisallowKey == <<"d", "i", "s", "a", "l", "l", "o", "w">>
AllowKey == <<"a", "l", "l", "o", "w">>
CrawlDelayKey == <<"c", "r", "a", "w", "l", "-", "d", "e", "l", "a", "y">>
SitemapKey == <<"s", "i", "t", "e", "m", "a", "p">>

\* the branch of the loop body a line takes
robots_branch(raw_line) ==
    LET line == robots_line(raw_line)
    IN  IF line = <<>> THEN "blank"
        ELSE IF ~Contains(line, ":") THEN "no-colon"
        ELSE IF robots_key(line) = UserAgentKey THEN "user-agent"
        ELSE IF robots_key(line) = DisallowKey THEN "disallow"
        ELSE IF robots_key(line) = AllowKey THEN "allow"
        ELSE IF robots_key(line) = CrawlDelayKey THEN "crawl-delay"
        ELSE IF robots_key(line) = SitemapKey THEN "sitemap"
        ELSE "other"

\* {"allow": [], "disallow": [], "crawl_delay": None}
NewAgent == [allow |-> <<>>, disallow |-> <<>>, crawl_delay |-> <<>>]

\* the user-agent branch on the dict of agents
add_agent(user_agents, value) ==
    IF value \in DOMAIN user_agents THEN user_agents
    ELSE [a \in DOMAIN user_agents \cup {value} |->
             IF a = value THEN NewAgent ELSE user_agents[a]]

RECURSIVE append_rule(_, _, _, _)
\* for agent in current_agents: if agent in user_agents:
\*     user_agents[agent][field].append(value)
append_rule(user_agents, agents, field, value) ==
    IF agents = <<>> THEN user_agents
    ELSE append_rule(IF Head(agents) \in DOMAIN user_agents
                     THEN [user_agents EXCEPT ![Head(agents)][field] = Append(@, value)]
                     ELSE user_agents,
                     Tail(agents), field, value)

\* the value of a decimal digit
DigitValue ==
    [c \in {DigitChar[i] : i \in DOMAIN DigitChar} |->
        (CHOOSE i \in DOMAIN DigitChar : DigitChar[i] = c) - 1]

\* float(value) returns for a string of digits; the other forms float accepts
\* (a sign, a point, an exponent, inf, nan) are in no line followed here
float_ok(value) == value # <<>> /\ \A i \in 1..Len(value) : value[i] \in DOMAIN DigitValue

RECURSIVE float_value(_)
\* float(value) of a string of digits
float_value(value) ==
    IF value = <<>> THEN 0
    ELSE 10 * float_value(SubSeq(value, 1, Len(value) - 1)) + DigitValue[value[Len(value)]]

RECURSIVE set_crawl_delay(_, _, _)
\* for agent in current_agents: if agent in user_agents:
\*     user_agents[agent]["crawl_delay"] = delay
set_crawl_delay(user_agents, agents, delay) ==
    IF agents = <<>> THEN user_agents
    ELSE set_crawl_delay(IF Head(agents) \in DOMAIN user_agents
                         THEN [user_agents EXCEPT ![Head(agents)].crawl_delay = <<delay>>]
                         ELSE user_agents,
                         Tail(agents), delay)

blank_line_agents_kept(current_agents) == current_agents

\* current_agents = [] of the blank-line branch
blank_line_agents(current_agents) == <<>>

add_sitemap_always(sitemaps, value) == Append(sitemaps, value)

\* if value not in sitemaps: sitemaps.append(value)
add_sitemap(sitemaps, value) ==
    IF \E i \in 1..Len(sitemaps) : sitemaps[i] = value THEN sitemaps
    ELSE Append(sitemaps, value)

RobotsLines ==
    {<<>>,
     <<" ", "#", " ", "c">>,
     <<"U", "s", "e", "r", "-", "a", "g", "e", "n", "t", ":", " ", "a">>,
     <<"u", "s", "e", "r", "-", "a", "g", "e", "n", "t", ":", "b">>,
     <<"D", "i", "s", "a", "l", "l", "o", "w", ":", " ", "/", "x">>,
     <<"A", "l", "l", "o", "w", ":", " ", "/", "y", " ", "#", "c">>,
     <<"C", "r", "a", "w", "l", "-", "d", "e", "l", "a", "y", ":", " ", "2">>,
     <<"C", "r", "a", "w", "l", "-", "d", "e", "l", "a", "y", ":", " ", "x">>,
     <<"S", "i", "t", "e", "m", "a", "p", ":", " ", "s">>,
     <<"S", "i", "t", "e", "m", "a", "p", ":", " ", "t">>,
     <<"x">>,
     <<"H", "o", "s", "t", ":", " ", "h">>}

RECURSIVE JoinLines(_)
\* "\n".join(lines)
JoinLines(lines) ==
    IF lines = <<>> THEN <<>>
    ELSE IF Len(lines) = 1 THEN lines[1]
    ELSE lines[1] \o <<"\n">> \o JoinLines(Tail(lines))

\* the robots.txt texts: up to MaxLines of the lines above
RobotsTexts == {JoinLines(ls) : ls \in SeqsUpTo(RobotsLines, MaxLines)}

\* parse_robots_txt lines 308-312: the empty results and the lines of the text
RobotsStart(text) ==
    [pc |-> "loop", text |-> text, lines |-> splitlines(text), i |-> 1,
     user_agents |-> EmptyDict, sitemaps |-> <<>>, current_agents |-> <<>>]

InitRobots ==
    /\ MainInit
    /\ pure = NoPure
    /\ \E text \in RobotsTexts : robots = RobotsStart(text)

\* the loop is at a line that takes the given branch
RobotsAt(branch) ==
    /\ robots.pc = "loop"
    /\ robots.i <= Len(robots.lines)
    /\ robots_branch(robots.lines[robots.i]) = branch

RobotsValue == robots_value(robots_line(robots.lines[robots.i]))

RobotsBlank ==
    /\ RobotsAt("blank")
    /\ robots' = [robots EXCEPT !.i = @ + 1,
                                !.current_agents = blank_line_agents(@)]
    /\ UNCHANGED <<mainVars, pure>>

RobotsNoColon ==
    /\ RobotsAt("no-colon")
    /\ robots' = [robots EXCEPT !.i = @ + 1]
    /\ UNCHANGED <<mainVars, pure>>

RobotsUserAgent ==
    /\ RobotsAt("user-agent")
    /\ robots' = [robots EXCEPT !.i = @ + 1,
                                !.user_agents = add_agent(@, RobotsValue),
                                !.current_agents = Append(@, RobotsValue)]
    /\ UNCHANGED <<mainVars, pure>>

RobotsDisallow ==
    /\ RobotsAt("disallow")
    /\ robots' = [robots EXCEPT !.i = @ + 1,
                                !.user_agents = append_rule(@, robots.current_agents,
                                                            "disallow", RobotsValue)]
    /\ UNCHANGED <<mainVars, pure>>

RobotsAllow ==
    /\ RobotsAt("allow")
    /\ robots' = [robots EXCEPT !.i = @ + 1,
                                !.user_agents = append_rule(@, robots.current_agents,
                                                            "allow", RobotsValue)]
    /\ UNCHANGED <<mainVars, pure>>

RobotsCrawlDelay ==
    /\ RobotsAt("crawl-delay")
    /\ IF float_ok(RobotsValue)
       THEN robots' = [robots EXCEPT !.i = @ + 1,
                                     !.user_agents = set_crawl_delay(@, robots.current_agents,
                                                                     float_value(RobotsValue))]
       ELSE robots' = [robots EXCEPT !.i = @ + 1]
    /\ UNCHANGED <<mainVars, pure>>

RobotsSitemap ==
    /\ RobotsAt("sitemap")
    /\ robots' = [robots EXCEPT !.i = @ + 1, !.sitemaps = add_sitemap(@, RobotsValue)]
    /\ UNCHANGED <<mainVars, pure>>

\* a line with a key the loop has no branch for
RobotsOtherKey ==
    /\ RobotsAt("other")
    /\ robots' = [robots EXCEPT !.i = @ + 1]
    /\ UNCHANGED <<mainVars, pure>>

\* return {"user_agents": user_agents, "sitemaps": sitemaps}
RobotsReturn ==
    /\ robots.pc = "loop"
    /\ robots.i > Len(robots.lines)
    /\ robots' = [robots EXCEPT !.pc = "returned"]
    /\ UNCHANGED <<mainVars, pure>>

NextRobots ==
    \/ RobotsBlank
    \/ RobotsNoColon
    \/ RobotsUserAgent
    \/ RobotsDisallow
    \/ RobotsAllow
    \/ RobotsCrawlDelay
    \/ RobotsSitemap
    \/ RobotsOtherKey
    \/ RobotsReturn

\* parse_robots_txt, one line of the text at a time
SpecRobots == InitRobots /\ [][NextRobots]_vars

\* ---------------------------------------------------------------- parse_feed
\* An XML text is followed as the sequence of its tokens: start tags and end
\* tags with the namespace and the local name of their element, character
\* data, and white space.
MaxTokens == 3

\* _ATOM_NS
ATOM_NS ==
    <<"h", "t", "t", "p", ":", "/", "/", "w", "w", "w", ".", "w", "3", ".", "o", "r",
      "g", "/", "2", "0", "0", "5", "/", "A", "t", "o", "m">>

\* another namespace
OtherNs == <<"o">>

StartTag(ns, local) == [type |-> "start", ns |-> ns, local |-> local]

EndTag(ns, local) == [type |-> "end", ns |-> ns, local |-> local]

CharData == [type |-> "text", ns |-> <<>>, local |-> <<>>]

WhiteSpace == [type |-> "space", ns |-> <<>>, local |-> <<>>]

\* xml_text.strip(): without the white space at both ends
xml_strip(tokens) ==
    IF \E i \in 1..Len(tokens) : tokens[i] # WhiteSpace
    THEN SubSeq(tokens,
                CHOOSE i \in 1..Len(tokens) :
                    tokens[i] # WhiteSpace /\ \A j \in 1..(i - 1) : tokens[j] = WhiteSpace,
                CHOOSE i \in 1..Len(tokens) :
                    tokens[i] # WhiteSpace /\ \A j \in (i + 1)..Len(tokens) : tokens[j] = WhiteSpace)
    ELSE <<>>

RECURSIVE WellFormed(_, _, _, _)
\* the parser accepts the tokens from index i on, with the given stack of
\* open elements, after `seen` root elements: one root element, every end
\* tag closing the innermost open element, character data inside the root
WellFormed(tokens, i, stack, seen) ==
    IF i > Len(tokens) THEN stack = <<>> /\ seen = 1
    ELSE CASE tokens[i].type = "start" ->
                  /\ ~(stack = <<>> /\ seen = 1)
                  /\ WellFormed(tokens, i + 1, Append(stack, tokens[i]),
                                IF stack = <<>> THEN 1 ELSE seen)
           [] tokens[i].type = "end" ->
                  /\ stack # <<>>
                  /\ stack[Len(stack)].ns = tokens[i].ns
                  /\ stack[Len(stack)].local = tokens[i].local
                  /\ WellFormed(tokens, i + 1, SubSeq(stack, 1, Len(stack) - 1), seen)
           [] tokens[i].type = "text" ->
                  /\ stack # <<>>
                  /\ WellFormed(tokens, i + 1, stack, seen)
           [] OTHER -> WellFormed(tokens, i + 1, stack, seen)

\* ET.fromstring(text) returns the root element (TRUE) or raises ParseError
fromstring_ok(tokens) == WellFormed(tokens, 1, <<>>, 0)

\* the tag of an element as ElementTree spells it: "{namespace}local", or
\* the local name alone for an element in no namespace
element_tag(el) ==
    IF el.ns = <<>> THEN el.local ELSE <<"{">> \o el.ns \o <<"}">> \o el.local

\* str.endswith
EndsWith(s, p) == Len(s) >= Len(p) /\ SubSeq(s, Len(s) - Len(p) + 1, Len(s)) = p

\* tag == "rss" or tag.endswith("}rss")
is_rss_root(tag) == tag = <<"r", "s", "s">> \/ EndsWith(tag, <<"}", "r", "s", "s">>)

is_atom_root_any_namespace(tag) ==
    tag = <<"f", "e", "e", "d">> \/ EndsWith(tag, <<"}", "f", "e", "e", "d">>)

\* tag == f"{{{_ATOM_NS}}}feed" or tag == "feed"
is_atom_root(tag) ==
    tag = <<"{">> \o ATOM_NS \o <<"}", "f", "e", "e", "d">> \/ tag = <<"f", "e", "e", "d">>

InvalidXmlFeedPrefix ==
    <<"I", "n", "v", "a", "l", "i", "d", " ", "X", "M", "L", " ", "f", "e", "e", "d",
      ":", " ">>

UnrecognizedFeedPrefix ==
    <<"U", "n", "r", "e", "c", "o", "g", "n", "i", "z", "e", "d", " ", "f", "e", "e",
      "d", " ", "f", "o", "r", "m", "a", "t", ":", " ", "r", "o", "o", "t", " ", "t",
      "a", "g", " ", "'">>

\* str(exc) of a ParseError
ParseErrorText ==
    <<"s", "y", "n", "t", "a", "x", " ", "e", "r", "r", "o", "r", ":", " ", "l", "i",
      "n", "e", " ", "1", ",", " ", "c", "o", "l", "u", "m", "n", " ", "0">>

\* parse_feed as far as its outcome goes: ValueError for a text the parser
\* rejects and for a root that is neither RSS nor Atom, else the document of
\* the branch taken
parse_feed(xml_text) ==
    IF ~fromstring_ok(xml_strip(xml_text))
    THEN [kind |-> "raise", type |-> "ValueError", msg |-> InvalidXmlFeedPrefix \o ParseErrorText]
    ELSE LET tag == element_tag(xml_strip(xml_text)[1])
         IN  IF is_rss_root(tag) THEN [kind |-> "return", type |-> "rss", msg |-> <<>>]
             ELSE IF is_atom_root(tag) THEN [kind |-> "return", type |-> "atom", msg |-> <<>>]
             ELSE [kind |-> "raise", type |-> "ValueError",
                   msg |-> UnrecognizedFeedPrefix \o tag \o <<"'">>]

\* _stealth_fetch_feed_impl lines 862-867: except ValueError as exc: raise
\* FetchError(str(exc))
fetch_feed_result(parsed) ==
    IF parsed.kind = "raise" /\ parsed.type = "ValueError"
    THEN [parsed EXCEPT !.type = "FetchError"]
    ELSE parsed

\* the element names of the texts: rss and feed in no namespace, in the Atom
\* namespace and in another one, and two names that are neither
FeedElements ==
    {[ns |-> ns, local |-> local] :
        ns \in {<<>>, ATOM_NS, OtherNs},
        local \in {<<"r", "s", "s">>, <<"f", "e", "e", "d">>}}
    \cup {[ns |-> <<>>, local |-> <<"h", "t", "m", "l">>],
          [ns |-> <<>>, local |-> <<"x", "r", "s", "s">>],
          [ns |-> OtherNs, local |-> <<"x", "r", "s", "s">>]}

FeedTokens ==
    {StartTag(el.ns, el.local) : el \in FeedElements}
    \cup {EndTag(el.ns, el.local) : el \in FeedElements}
    \cup {CharData, WhiteSpace}

FeedTexts == SeqsUpTo(FeedTokens, MaxTokens)

FeedPending == [kind |-> "called", type |-> "none", msg |-> <<>>]

InitFeed ==
    /\ MainInit
    /\ robots = NoRobots
    /\ \E text \in FeedTexts :
          pure = [fn |-> "feed", args |-> [xml_text |-> text],
                  result |-> [parsed |-> FeedPending, tool |-> FeedPending]]

\* parse_feed(result.text)
ParseFeed ==
    /\ pure.fn = "feed"
    /\ pure.result.parsed.kind = "called"
    /\ pure' = [pure EXCEPT !.result.parsed = parse_feed(pure.args.xml_text)]
    /\ UNCHANGED <<mainVars, robots>>

\* the fetch_feed tool returns the document or raises FetchError
FetchFeedEnd ==
    /\ pure.fn = "feed"
    /\ pure.result.parsed.kind # "called"
    /\ pure.result.tool.kind = "called"
    /\ pure' = [pure EXCEPT !.result.tool = fetch_feed_result(pure.result.parsed)]
    /\ UNCHANGED <<mainVars, robots>>

NextFeed == ParseFeed \/ FetchFeedEnd

\* parse_feed on the text of a response, and the tool around it
SpecFeed == InitFeed /\ [][NextFeed]_vars

\* ------------------------------------------------------ parse_feed: the items
\* An element of the parsed tree: its tag as ElementTree spells it, its text
\* (<<>> for None), its href attribute (<<>> when it has none), its children.
MaxChildren == 3

Element(tag, text, href, children) ==
    [tag |-> tag, text |-> text, href |-> href, children |-> children]

\* el.find(tag): the first child with the tag, <<>> for None
find(el, tag) ==
    IF \E i \in 1..Len(el.children) : el.children[i].tag = tag
    THEN <<el.children[CHOOSE i \in 1..Len(el.children) :
                           /\ el.children[i].tag = tag
                           /\ \A j \in 1..(i - 1) : el.children[j].tag # tag]>>
    ELSE <<>>

\* el.findall(tag): the children with the tag, in document order
findall(el, tag) == SelectSeq(el.children, LAMBDA c : c.tag = tag)

\* seq[:n]
slice_to(seq, n) ==
    IF n >= 0 THEN SubSeq(seq, 1, IF n < Len(seq) THEN n ELSE Len(seq))
    ELSE SubSeq(seq, 1, IF Len(seq) + n > 0 THEN Len(seq) + n ELSE 0)

xml_text_null(el) ==
    IF el = <<>> THEN Null
    ELSE Strip(IF el[1].text = <<>> THEN <<>> ELSE el[1].text[1])

\* _xml_text: "" for None, else (el.text or "").strip()
xml_text(el) ==
    IF el = <<>> THEN <<>>
    ELSE Strip(IF el[1].text = <<>> THEN <<>> ELSE el[1].text[1])

\* (el.get("href") or "") if el is not None else ""
href_or_empty(el) ==
    IF el = <<>> THEN <<>>
    ELSE IF el[1].href = <<>> THEN <<>> ELSE el[1].href[1]

ChannelTag == <<"c", "h", "a", "n", "n", "e", "l">>
ItemTag == <<"i", "t", "e", "m">>
TitleTag == <<"t", "i", "t", "l", "e">>
LinkTag == <<"l", "i", "n", "k">>
PubDateTag == <<"p", "u", "b", "D", "a", "t", "e">>
DescriptionTag == <<"d", "e", "s", "c", "r", "i", "p", "t", "i", "o", "n">>
EntryTag == <<"e", "n", "t", "r", "y">>
SummaryTag == <<"s", "u", "m", "m", "a", "r", "y">>
ContentTag == <<"c", "o", "n", "t", "e", "n", "t">>
UpdatedTag == <<"u", "p", "d", "a", "t", "e", "d">>
PublishedTag == <<"p", "u", "b", "l", "i", "s", "h", "e", "d">>

\* the dict of one RSS item
rss_item(item_el) ==
    [title |-> xml_text(find(item_el, TitleTag)),
     link |-> xml_text(find(item_el, LinkTag)),
     published |-> xml_text(find(item_el, PubDateTag)),
     summary |-> xml_text(find(item_el, DescriptionTag))]

\* the dict of one Atom entry; pfx is "{namespace}" or ""
atom_item(entry, pfx) ==
    LET summary_el == IF find(entry, pfx \o SummaryTag) = <<>>
                      THEN find(entry, pfx \o ContentTag)
                      ELSE find(entry, pfx \o SummaryTag)
        pub_el == IF find(entry, pfx \o UpdatedTag) = <<>>
                  THEN find(entry, pfx \o PublishedTag)
                  ELSE find(entry, pfx \o UpdatedTag)
    IN  [title |-> xml_text(find(entry, pfx \o TitleTag)),
         link |-> href_or_empty(find(entry, pfx \o LinkTag)),
         published |-> xml_text(pub_el),
         summary |-> xml_text(summary_el)]

FeedDocument(feed_title, feed_link, feed_items) ==
    [kind |-> "return", feed_title |-> feed_title, feed_link |-> feed_link,
     items |-> feed_items]

\* parse_feed lines 261-301 on the root the parser returned
parse_feed_root(root, max_items) ==
    IF is_rss_root(root.tag)
    THEN LET channel == find(root, ChannelTag)
         IN  IF channel # <<>>
             THEN LET found == slice_to(findall(channel[1], ItemTag), max_items)
                  IN  FeedDocument(xml_text(find(channel[1], TitleTag)),
                                   xml_text(find(channel[1], LinkTag)),
                                   [i \in 1..Len(found) |-> rss_item(found[i])])
             ELSE FeedDocument(<<>>, <<>>, <<>>)
    ELSE IF is_atom_root(root.tag)
    THEN LET pfx == IF StartsWith(root.tag, <<"{">>) THEN <<"{">> \o ATOM_NS \o <<"}">> ELSE <<>>
             found == slice_to(findall(root, pfx \o EntryTag), max_items)
         IN  FeedDocument(xml_text(find(root, pfx \o TitleTag)),
                          href_or_empty(find(root, pfx \o LinkTag)),
                          [i \in 1..Len(found) |-> atom_item(found[i], pfx)])
    ELSE [kind |-> "raise", feed_title |-> <<>>, feed_link |-> <<>>, items |-> <<>>]

\* a sub-element of an item as the sample feeds give it: absent (<<>>),
\* present without text (<<<<>>>>), present with a text (<<<<text>>>>)
ItemShapes ==
    {[title |-> <<<<<<" ", "a", " ">>>>>>, link |-> <<<<<<"l">>>>>>, date |-> <<<<<<"d">>>>>>,
      date2 |-> <<>>, sum |-> <<<<<<"s">>>>>>, sum2 |-> <<>>],
     [title |-> <<<<<<"b">>>>>>, link |-> <<>>, date |-> <<>>,
      date2 |-> <<<<<<"p">>>>>>, sum |-> <<>>, sum2 |-> <<<<<<"c">>>>>>],
     [title |-> <<<<>>>>, link |-> <<<<>>>>, date |-> <<<<>>>>,
      date2 |-> <<>>, sum |-> <<<<>>>>, sum2 |-> <<>>],
     [title |-> <<>>, link |-> <<>>, date |-> <<>>, date2 |-> <<>>, sum |-> <<>>, sum2 |-> <<>>]}

\* the children of a channel or of an Atom root: items, a title, another
\* element
FeedChildKinds ==
    {[kind |-> "item", shape |-> s] : s \in ItemShapes}
    \cup {[kind |-> k, shape |-> <<>>] : k \in {"title", "other"}}

\* the sub-elements of the given tags a shape has, as elements in namespace ns
SubElements(shape, fields, tags, ns, as_href) ==
    LET present == SelectSeq([i \in 1..Len(fields) |-> i], LAMBDA i : shape[fields[i]] # <<>>)
    IN  [j \in 1..Len(present) |->
            IF as_href[present[j]]
            THEN Element(element_tag([ns |-> ns, local |-> tags[present[j]]]), <<>>,
                         shape[fields[present[j]]][1], <<>>)
            ELSE Element(element_tag([ns |-> ns, local |-> tags[present[j]]]),
                         shape[fields[present[j]]][1], <<>>, <<>>)]

ShapeFields == <<"title", "link", "date", "date2", "sum", "sum2">>

\* the element of a child of the given kind in an RSS channel
RssChild(child, ns) ==
    IF child.kind = "item"
    THEN Element(element_tag([ns |-> ns, local |-> ItemTag]), <<>>, <<>>,
                 SubElements(child.shape, ShapeFields,
                             <<TitleTag, LinkTag, PubDateTag, PublishedTag, DescriptionTag,
                               ContentTag>>,
                             ns, <<FALSE, FALSE, FALSE, FALSE, FALSE, FALSE>>))
    ELSE IF child.kind = "title"
    THEN Element(element_tag([ns |-> ns, local |-> TitleTag]), <<<<"T">>>>, <<>>, <<>>)
    ELSE Element(element_tag([ns |-> ns, local |-> <<"x">>]), <<>>, <<>>, <<>>)

\* the element of a child of the given kind in an Atom feed
AtomChild(child, ns) ==
    IF child.kind = "item"
    THEN Element(element_tag([ns |-> ns, local |-> EntryTag]), <<>>, <<>>,
                 SubElements(child.shape, ShapeFields,
                             <<TitleTag, LinkTag, UpdatedTag, PublishedTag, SummaryTag,
                               ContentTag>>,
                             ns, <<FALSE, TRUE, FALSE, FALSE, FALSE, FALSE>>))
    ELSE IF child.kind = "title"
    THEN Element(element_tag([ns |-> ns, local |-> TitleTag]), <<<<"T">>>>, <<>>, <<>>)
    ELSE Element(element_tag([ns |-> ns, local |-> <<"x">>]), <<>>, <<>>, <<>>)

\* the root of the feed an input describes
FeedTree(a) ==
    IF a.format = "rss"
    THEN Element(element_tag([ns |-> a.root_ns, local |-> <<"r", "s", "s">>]), <<>>, <<>>,
                 IF a.channel
                 THEN <<Element(element_tag([ns |-> a.child_ns, local |-> ChannelTag]), <<>>, <<>>,
                                [i \in 1..Len(a.children) |-> RssChild(a.children[i], a.child_ns)])>>
                 ELSE <<>>)
    ELSE Element(element_tag([ns |-> a.root_ns, local |-> <<"f", "e", "e", "d">>]), <<>>, <<>>,
                 [i \in 1..Len(a.children) |-> AtomChild(a.children[i], a.child_ns)])

\* the feeds: RSS in no namespace, RSS with a namespace on the root alone (a
\* prefixed root) or on every element (a default namespace), Atom in no
\* namespace and in the Atom namespace; max_items from 0 up
FeedItemInputs ==
    {[format |-> "rss", root_ns |-> ns[1], child_ns |-> ns[2], channel |-> TRUE,
      children |-> ch, max_items |-> n] :
        ns \in {<<<<>>, <<>>>>, <<OtherNs, <<>>>>, <<OtherNs, OtherNs>>},
        ch \in SeqsUpTo(FeedChildKinds, MaxChildren), n \in 0..(MaxChildren + 1)}
    \cup {[format |-> "rss", root_ns |-> <<>>, child_ns |-> <<>>, channel |-> FALSE,
           children |-> <<>>, max_items |-> n] : n \in 0..(MaxChildren + 1)}
    \cup {[format |-> "atom", root_ns |-> ns, child_ns |-> ns, channel |-> FALSE,
           children |-> ch, max_items |-> n] :
            ns \in {<<>>, ATOM_NS},
            ch \in SeqsUpTo(FeedChildKinds, MaxChildren), n \in 0..(MaxChildren + 1)}

FeedItemsPending ==
    [kind |-> "called", feed_title |-> <<>>, feed_link |-> <<>>, items |-> <<>>]

InitFeedItems ==
    /\ MainInit
    /\ robots = NoRobots
    /\ \E a \in FeedItemInputs :
          pure = [fn |-> "feed_items", args |-> a, result |-> FeedItemsPending]

\* parse_feed(xml_text, max_items) for a text the parser accepts
ParseFeedRoot ==
    /\ pure.fn = "feed_items"
    /\ pure.result.kind = "called"
    /\ pure' = [pure EXCEPT !.result = parse_feed_root(FeedTree(pure.args), pure.args.max_items)]
    /\ UNCHANGED <<mainVars, robots>>

NextFeedItems == ParseFeedRoot

\* parse_feed on well-formed feeds
SpecFeedItems == InitFeedItems /\ [][NextFeedItems]_vars

\* -------------------------------------------------------------- extract_links
\* elements of the documents followed here
MaxLinks == 3

\* _normalize_whitespace: re.sub(r"\s+", " ", value).strip()
normalize_whitespace(value) ==
    LET kept == SelectSeq([i \in 1..Len(value) |-> i],
                          LAMBDA i : ~(value[i] \in Whitespace /\ i > 1
                                       /\ value[i - 1] \in Whitespace))
    IN  Strip([j \in 1..Len(kept) |->
                  IF value[kept[j]] \in Whitespace THEN " " ELSE value[kept[j]]])

\* _href_to_str of tag.get("href"): "" for None, else the value (an href is
\* no multi-valued attribute and never comes as a list)
href_to_str(value) == IF value = Null THEN <<>> ELSE value

\* regex.search(href) is not None, for a pattern without metacharacters
re_search(pattern, href) ==
    \E i \in 1..(Len(href) - Len(pattern) + 1) : SubSeq(href, i, i + Len(pattern) - 1) = pattern

RECURSIVE links_loop(_, _, _, _, _)
\* the loop over soup.select(selector) from element i on; an entry is the
\* text and the href of the element, and its position in the document
\* (absolute_url, urljoin(base_url, href), is not followed)
links_loop(tags, i, results, pattern, max_results) ==
    IF i > Len(tags) THEN results
    ELSE LET href == Strip(href_to_str(tags[i].href))
         IN  IF href = <<>> THEN links_loop(tags, i + 1, results, pattern, max_results)
             ELSE IF pattern \notin {Null, <<>>} /\ ~re_search(pattern, href)
             THEN links_loop(tags, i + 1, results, pattern, max_results)
             ELSE LET added == Append(results,
                                      [text |-> normalize_whitespace(Strip(tags[i].text)),
                                       href |-> href, position |-> tags[i].position])
                  IN  IF Len(added) >= max_results THEN added
                      ELSE links_loop(tags, i + 1, added, pattern, max_results)

\* soup.select(selector): the elements of the document the selector matches,
\* in document order
select(document) ==
    SelectSeq([i \in 1..Len(document) |->
                  [text |-> document[i].text, href |-> document[i].href,
                   matches |-> document[i].matches, position |-> i]],
              LAMBDA el : el.matches)

\* extract_links: ValueError for a pattern that does not compile, else the
\* list of entries
extract_links(document, pattern, max_results) ==
    IF extract_links_raises(pattern)
    THEN [kind |-> "raise", results |-> <<>>]
    ELSE [kind |-> "return",
          results |-> links_loop(select(document), 1, <<>>, pattern, max_results)]

\* the elements: matched by the selector or not, with no href, a blank one,
\* and hrefs with and without the letters of the patterns
LinkElements ==
    [matches : BOOLEAN, text : {<<" ", "t", " ", " ", "u">>},
     href : {Null, <<" ">>, <<"a">>, <<" ", "b", " ">>, <<"a", "b">>}]

LinkInputs ==
    [document : SeqsUpTo(LinkElements, MaxLinks),
     pattern : {Null, <<>>, <<"a">>, <<"b">>, <<"(">>},
     max_results : 0..(MaxLinks + 1)]

LinksPending == [kind |-> "called", results |-> <<>>]

InitLinks ==
    /\ MainInit
    /\ robots = NoRobots
    /\ \E a \in LinkInputs : pure = [fn |-> "links", args |-> a, result |-> LinksPending]

ExtractLinks ==
    /\ pure.fn = "links"
    /\ pure.result.kind = "called"
    /\ pure' = [pure EXCEPT !.result = extract_links(pure.args.document, pure.args.pattern,
                                                     pure.args.max_results)]
    /\ UNCHANGED <<mainVars, robots>>

NextLinks == ExtractLinks

\* extract_links on parsed documents
SpecLinks == InitLinks /\ [][NextLinks]_vars

\* ------------------------------------------------------------- extract_tables
\* A parsed document is a tree of nodes: the name of the tag, the text at its
\* start, its children in document order.
MaxRows == 3

Node(name, text, children) == [name |-> name, text |-> text, children |-> children]

RECURSIVE DescendantsOf(_)
\* the descendants of the given sibling nodes, in document order
DescendantsOf(nodes) ==
    IF nodes = <<>> THEN <<>>
    ELSE <<Head(nodes)>> \o DescendantsOf(Head(nodes).children) \o DescendantsOf(Tail(nodes))

\* tag.find_all(names): every descendant with one of the names
find_all(node, names) == SelectSeq(DescendantsOf(node.children), LAMBDA d : d.name \in names)

\* tag.find(name): the first such descendant, <<>> for None
soup_find(node, name) ==
    IF find_all(node, {name}) = <<>> THEN <<>> ELSE <<find_all(node, {name})[1]>>

RECURSIVE get_text(_)
RECURSIVE get_texts(_)
\* tag.get_text(): the text of the node and of all its descendants
get_text(node) == node.text \o get_texts(node.children)

get_texts(nodes) ==
    IF nodes = <<>> THEN <<>> ELSE get_text(Head(nodes)) \o get_texts(Tail(nodes))

\* [_normalize_whitespace(cell.get_text()) for cell in tr.find_all(["th", "td"])]
cell_texts(tr) ==
    [i \in 1..Len(find_all(tr, {"th", "td"})) |->
        normalize_whitespace(get_text(find_all(tr, {"th", "td"})[i]))]

table_headers_any_first_row(table) ==
    IF soup_find(table, "tr") = <<>> THEN <<>> ELSE cell_texts(soup_find(table, "tr")[1])

\* the headers of a table: the cells of the first row of the thead, else
\* those of the first row of the table when it holds a th
table_headers(table) ==
    LET thead == soup_find(table, "thead")
        header_tr == IF thead = <<>> THEN <<>> ELSE soup_find(thead[1], "tr")
        headers == IF header_tr = <<>> THEN <<>> ELSE cell_texts(header_tr[1])
        first_tr == soup_find(table, "tr")
    IN  IF headers # <<>> THEN headers
        ELSE IF first_tr # <<>> /\ soup_find(first_tr[1], "th") # <<>>
        THEN cell_texts(first_tr[1])
        ELSE <<>>

\* any(cells)
any_cell(cells) == \E i \in 1..Len(cells) : cells[i] # <<>>

\* the rows collected from the tbody, or from the table when it has none
collected_rows(table) ==
    LET tbody == soup_find(table, "tbody")
        row_source == IF tbody # <<>> THEN tbody[1] ELSE table
        trs == find_all(row_source, {"tr"})
    IN  SelectSeq([i \in 1..Len(trs) |-> cell_texts(trs[i])], any_cell)

drop_every_header_row(headers, rows) ==
    IF headers # <<>> THEN SelectSeq(rows, LAMBDA r : r # headers) ELSE rows

\* if headers and rows and rows[0] == headers: rows = rows[1:]
drop_header_row(headers, rows) ==
    IF headers # <<>> /\ rows # <<>> /\ rows[1] = headers THEN Tail(rows) ELSE rows

\* the entry of one table; collected is the list of rows before the rule of
\* the header row is applied
extract_table(table) ==
    [headers |-> table_headers(table),
     collected |-> collected_rows(table),
     rows |-> drop_header_row(table_headers(table), collected_rows(table))]

\* extract_tables without a selector: an entry for every table of the
\* document, nested ones included, in document order
extract_tables(root) ==
    [i \in 1..Len(find_all(root, {"table"})) |-> extract_table(find_all(root, {"table"})[i])]

Td(text) == Node("td", text, <<>>)

Th(text) == Node("th", text, <<>>)

\* a table nested in a cell: a header section and a body section of one row
NestedTable ==
    Node("table", <<>>,
         <<Node("thead", <<>>, <<Node("tr", <<>>, <<Th(<<"n">>)>>)>>),
           Node("tbody", <<>>, <<Node("tr", <<>>, <<Td(<<"m">>)>>)>>)>>)

\* a nested table with a body section and no th
NestedPlainTable ==
    Node("table", <<>>, <<Node("tbody", <<>>, <<Node("tr", <<>>, <<Td(<<"m">>)>>)>>)>>)

\* the rows of the tables, each the sequence of its cells
RowShapes ==
    {<<Th(<<"h">>), Th(<<" ", "k">>)>>,
     <<Td(<<"h">>), Td(<<"k">>)>>,
     <<Td(<<"a">>), Th(<<"b">>)>>,
     <<Td(<<"a">>), Td(<<" ">>)>>,
     <<Td(<<" ">>)>>,
     <<>>,
     <<Node("td", <<"a">>, <<NestedTable>>)>>,
     <<Node("td", <<"a">>, <<NestedPlainTable>>)>>}

\* the tables: thead is <<>> (no header section), <<<<>>>> (an empty one) or
\* <<<<cells>>>> (one with a row); the body rows are in a tbody or directly in
\* the table; foot is the row of a tfoot, or <<>>
TableInputs ==
    [thead : {<<>>, <<<<>>>>} \cup {<<<<r>>>> : r \in RowShapes},
     rows : SeqsUpTo(RowShapes, MaxRows),
     tbody : BOOLEAN,
     foot : {<<>>, <<<<Td(<<"f">>)>>>>}]

Trs(rows) == [i \in 1..Len(rows) |-> Node("tr", <<>>, rows[i])]

\* the document of one table input
TableDocument(a) ==
    Node("body", <<>>,
         <<Node("table", <<>>,
                (IF a.thead = <<>> THEN <<>> ELSE <<Node("thead", <<>>, Trs(a.thead[1]))>>)
                \o (IF a.tbody THEN <<Node("tbody", <<>>, Trs(a.rows))>> ELSE Trs(a.rows))
                \o (IF a.foot = <<>> THEN <<>> ELSE <<Node("tfoot", <<>>, Trs(a.foot))>>))>>)

InitTables ==
    /\ MainInit
    /\ robots = NoRobots
    /\ \E a \in TableInputs :
          pure = [fn |-> "tables", args |-> a, result |-> [kind |-> "called", tables |-> <<>>]]

ExtractTables ==
    /\ pure.fn = "tables"
    /\ pure.result.kind = "called"
    /\ pure' = [pure EXCEPT !.result = [kind |-> "return",
                                        tables |-> extract_tables(TableDocument(pure.args))]]
    /\ UNCHANGED <<mainVars, robots>>

NextTables == ExtractTables

\* extract_tables on parsed documents
SpecTables == InitTables /\ [][NextTables]_vars

\* ---------------------------------------------------------------- _clean_html
\* top-level elements of the documents followed here
MaxBlocks == 2

NOISE_TAGS ==
    {"script", "style", "noscript", "nav", "footer", "aside", "form", "svg", "iframe"}

\* an element of the parsed document: its name, its class and href
\* attributes (Null when absent), the string at its start, its child elements
HtmlTag(name, class, href, text, children) ==
    [name |-> name, class |-> class, href |-> href, text |-> text, children |-> children]

RECURSIVE decompose_noise(_)
\* for tag in soup.find_all(NOISE_TAGS): tag.decompose()
decompose_noise(nodes) ==
    IF nodes = <<>> THEN <<>>
    ELSE LET n == Head(nodes)
         IN  (IF n.name \in NOISE_TAGS THEN <<>>
              ELSE <<[n EXCEPT !.children = decompose_noise(n.children)]>>)
             \o decompose_noise(Tail(nodes))

RECURSIVE str_join(_, _)
\* sep.join(parts)
str_join(sep, parts) ==
    IF parts = <<>> THEN <<>>
    ELSE IF Len(parts) = 1 THEN parts[1]
    ELSE parts[1] \o sep \o str_join(sep, Tail(parts))

RECURSIVE inline_text(_)
\* _inline_text of a Tag; the string at the start of the tag is its first child
inline_text(node) ==
    IF node.name \in NOISE_TAGS THEN <<>>
    ELSE LET strings == IF node.text = <<>> THEN <<>>
                        ELSE <<normalize_whitespace(node.text)>>
             parts == strings \o [i \in 1..Len(node.children) |->
                                     inline_text(node.children[i])]
         IN  IF node.name = "a"
             THEN LET href == Strip(href_to_str(node.href))
                      joined == normalize_whitespace(str_join(<<" ">>, parts))
                      shown == IF joined = <<>> THEN href ELSE joined
                  IN  IF href # <<>>
                      THEN <<"[">> \o shown \o <<"]", "(">> \o href \o <<")">>
                      ELSE shown
             ELSE normalize_whitespace(
                      str_join(<<" ">>, SelectSeq(parts, LAMBDA part : part # <<>>)))

\* soup.select_one(selector) for a class selector: the first element in
\* document order with that class, as a list of at most one element
select_one(soup, selector) ==
    LET found == SelectSeq(DescendantsOf(soup),
                           LAMBDA d : selector[1] = "." /\ d.class = Tail(selector))
    IN  IF found = <<>> THEN <<>> ELSE <<found[1]>>

tracked_tags == {"h1", "h2", "h3", "h4", "h5", "h6", "p", "li", "div"}

\* int(tag.name[1]) of a heading
heading_level(name) ==
    CASE name = "h1" -> 1 [] name = "h2" -> 2 [] name = "h3" -> 3
      [] name = "h4" -> 4 [] name = "h5" -> 5 [] OTHER -> 6

\* the line of one tracked tag, <<>> when the tag is skipped
block_line(tag) ==
    LET has_nested_blocks == \E i \in 1..Len(tag.children) :
                                 tag.children[i].name \in tracked_tags
        text == normalize_whitespace(inline_text(tag))
    IN  IF tag.name = "div" /\ has_nested_blocks THEN <<>>
        ELSE IF text = <<>> THEN <<>>
        ELSE IF tag.name \in {"h1", "h2", "h3", "h4", "h5", "h6"}
        THEN <<Repeat("#", heading_level(tag.name)) \o <<" ">> \o text>>
        ELSE IF tag.name = "li" THEN <<<<"-", " ">> \o text>>
        ELSE <<text>>

RECURSIVE block_lines(_)
\* the loop over target.find_all(tracked_tags, recursive=True)
block_lines(tags) ==
    IF tags = <<>> THEN <<>> ELSE block_line(Head(tags)) \o block_lines(Tail(tags))

\* the literal "[selector not found: " of the f-string
SelectorNotFound ==
    <<"[", "s", "e", "l", "e", "c", "t", "o", "r", " ", "n", "o", "t", " ", "f", "o",
      "u", "n", "d", ":", " ">>

\* f"[selector not found: {selector}]\n\n"
selector_prefix(selector) == SelectorNotFound \o selector \o <<"]", "\n", "\n">>

\* _clean_html with the fallback to the body left out: nothing is rendered
\* when the selector is not found
clean_html_no_fallback(document, selector, max_chars) ==
    LET soup == decompose_noise(document)
        selected == IF selector \in {Null, <<>>} THEN <<>> ELSE select_one(soup, selector)
        prefix == IF selector \notin {Null, <<>>} /\ selected = <<>>
                  THEN selector_prefix(selector) ELSE <<>>
        target == IF selected # <<>> THEN selected[1]
                  ELSE HtmlTag("body", Null, Null, <<>>,
                               IF selector \in {Null, <<>>} THEN soup ELSE <<>>)
        lines == block_lines(find_all(target, tracked_tags))
        rendered == prefix \o str_join(<<"\n">>, lines)
    IN  parser_truncate(Strip(rendered), max_chars)

\* _clean_html on a parsed document: the document is the list of the
\* elements of its body (soup.body or soup: both hold the same elements;
\* target is never None)
clean_html(document, selector, max_chars) ==
    LET soup == decompose_noise(document)
        selected == IF selector \in {Null, <<>>} THEN <<>> ELSE select_one(soup, selector)
        prefix == IF selector \notin {Null, <<>>} /\ selected = <<>>
                  THEN selector_prefix(selector) ELSE <<>>
        target == IF selected # <<>> THEN selected[1]
                  ELSE HtmlTag("body", Null, Null, <<>>, soup)
        lines == block_lines(find_all(target, tracked_tags))
        rendered == prefix \o str_join(<<"\n">>, lines)
    IN  parser_truncate(Strip(rendered), max_chars)

\* elements: a heading, paragraphs (one blank, one with a link), a list
\* item, a div with text, a div that only holds a heading, a script
HtmlShapes ==
    {HtmlTag("h2", <<"m">>, Null, <<"M">>, <<>>),
     HtmlTag("p", Null, Null, <<" ", "x", "\n", " ", "y">>, <<>>),
     HtmlTag("p", Null, Null, <<" ">>, <<>>),
     HtmlTag("p", Null, Null, <<>>, <<HtmlTag("a", Null, <<"/", "a">>, <<"L">>, <<>>)>>),
     HtmlTag("li", Null, Null, <<"y">>, <<>>),
     HtmlTag("div", <<"o">>, Null, <<"O">>, <<>>),
     HtmlTag("div", <<"m">>, Null, <<>>, <<HtmlTag("h2", Null, Null, <<"M">>, <<>>)>>),
     HtmlTag("script", <<"z">>, Null, <<"s">>, <<>>)}

\* max_chars below, at and above the length of the line of a selector that
\* is not found
CleanMaxChars == {1, 10, 23, 24, 26, 27, 100}

CleanInputs ==
    [document : SeqsUpTo(HtmlShapes, MaxBlocks),
     selector : {Null, <<>>, <<".", "m">>, <<".", "z">>},
     max_chars : CleanMaxChars]

CleanPending == [kind |-> "called", text |-> <<>>]

InitClean ==
    /\ MainInit
    /\ robots = NoRobots
    /\ \E a \in CleanInputs : pure = [fn |-> "clean", args |-> a, result |-> CleanPending]

CleanHtml ==
    /\ pure.fn = "clean"
    /\ pure.result.kind = "called"
    /\ pure' = [pure EXCEPT !.result =
                   [kind |-> "return",
                    text |-> clean_html(pure.args.document, pure.args.selector,
                                        pure.args.max_chars)]]
    /\ UNCHANGED <<mainVars, robots>>

NextClean == CleanHtml

\* _clean_html on parsed documents
SpecClean == InitClean /\ [][NextClean]_vars

\* ------------------------------------------------------------ extract_metadata
\* elements of the documents followed here
MaxMetas == 3

\* the depth to which the JSON scanner of the interpreter nests before it
\* raises RecursionError (sys.getrecursionlimit(), 1000), scaled
JsonRecursionLimit == 2

\* a script or meta element: the string of a script, the attributes of a
\* meta (Null when absent)
MetaElement(tag, type, string, property, name, http_equiv, content) ==
    [tag |-> tag, type |-> type, string |-> string, property |-> property,
     name |-> name, http_equiv |-> http_equiv, content |-> content]

LdJson == <<"l", "d", "+", "j", "s", "o", "n">>

OgPrefix == <<"o", "g", ":">>

TwitterPrefix == <<"t", "w", "i", "t", "t", "e", "r", ":">>

\* the arrays the scanner has entered at the start of the text
LeadingDepth(text) ==
    LET stripped == Strip(text)
        others == {i \in 1..Len(stripped) : stripped[i] # "["}
    IN  IF others = {} THEN Len(stripped)
        ELSE (CHOOSE i \in others : \A j \in others : i <= j) - 1

\* json.loads(raw): the value, JSONDecodeError, or RecursionError for a
\* text nested deeper than the scanner can go
json_loads(raw) ==
    IF LeadingDepth(raw) > JsonRecursionLimit THEN "RecursionError"
    ELSE IF json_loads_ok(raw) THEN "value"
    ELSE "JSONDecodeError"

\* soup.find_all("script", type="application/ld+json")
ld_json_scripts(document) ==
    SelectSeq(document, LAMBDA el : el.tag = "script" /\ el.type = LdJson)

\* tag.string or ""
script_raw(el) == IF el.string = Null THEN <<>> ELSE el.string

\* the loop of lines 149-154: the parsed blocks (each stands for its
\* value by its text); except (json.JSONDecodeError, ValueError) lets a
\* RecursionError leave the function
json_ld(document) ==
    LET scripts == ld_json_scripts(document)
    IN  IF \E i \in 1..Len(scripts) : json_loads(script_raw(scripts[i])) = "RecursionError"
        THEN [kind |-> "raise", json_ld |-> <<>>]
        ELSE [kind |-> "return",
              json_ld |-> SelectSeq([i \in 1..Len(scripts) |->
                                        Strip(script_raw(scripts[i]))],
                                    LAMBDA raw : json_loads(raw) = "value")]

\* str(tag.get(attr, ""))
attr_str(value) == IF value = Null THEN <<>> ELSE value

RECURSIVE prefixed_map(_, _, _, _)
\* the loops of lines 156-166: the map of the attribute values with the
\* prefix, keyed by the rest, filled in document order
prefixed_map(metas, attr, prefix, map) ==
    IF metas = <<>> THEN map
    ELSE LET tag == Head(metas)
             prop == attr_str(tag[attr])
         IN  prefixed_map(Tail(metas), attr, prefix,
                          IF tag[attr] # Null /\ StartsWith(prop, prefix)
                          THEN DictSet(map, SubSeq(prop, Len(prefix) + 1, Len(prop)),
                                       attr_str(tag.content))
                          ELSE map)

RECURSIVE meta_map(_, _)
\* the loop of lines 168-177: the generic map
meta_map(metas, map) ==
    IF metas = <<>> THEN map
    ELSE LET tag == Head(metas)
             raw_name == IF tag.name \notin {Null, <<>>} THEN tag.name ELSE tag.http_equiv
             content == tag.content
         IN  meta_map(Tail(metas),
                      IF raw_name \in {Null, <<>>} \/ content \in {Null, <<>>} THEN map
                      ELSE IF StartsWith(raw_name, OgPrefix)
                              \/ StartsWith(raw_name, TwitterPrefix) THEN map
                      ELSE DictSet(map, raw_name, content))

\* extract_metadata on a parsed document (the list of its script and meta
\* elements in document order)
extract_metadata(document) ==
    LET blocks == json_ld(document)
        metas == SelectSeq(document, LAMBDA el : el.tag = "meta")
    IN  IF blocks.kind = "raise"
        THEN [kind |-> "raise", json_ld |-> <<>>, opengraph |-> EmptyDict,
              twitter |-> EmptyDict, meta |-> EmptyDict]
        ELSE [kind |-> "return", json_ld |-> blocks.json_ld,
              opengraph |-> prefixed_map(metas, "property", OgPrefix, EmptyDict),
              twitter |-> prefixed_map(metas, "name", TwitterPrefix, EmptyDict),
              meta |-> meta_map(metas, EmptyDict)]

LdScript(string) == MetaElement("script", LdJson, string, Null, Null, Null, Null)

Meta(property, name, http_equiv, content) ==
    MetaElement("meta", Null, Null, property, name, http_equiv, content)

OgT == <<"o", "g", ":", "t">>

TwitterC == <<"t", "w", "i", "t", "t", "e", "r", ":", "c">>

\* JSON-LD blocks that parse, that do not, one without a string, one nested
\* deeper than the scanner goes, a script of another type; meta elements
\* with and without the prefixes, with equal keys, with and without content
MetaElements ==
    {LdScript(<<" ", "1">>), LdScript(<<"[", "1", "]">>), LdScript(<<"[", "1", ",", "]">>),
     LdScript(Null), LdScript(Repeat("[", JsonRecursionLimit + 1)),
     MetaElement("script", <<"j", "s">>, <<"1">>, Null, Null, Null, Null),
     Meta(OgT, Null, Null, <<"A">>), Meta(OgT, Null, Null, <<"B">>),
     Meta(OgT, <<"d">>, Null, Null), Meta(<<"t">>, Null, Null, <<"A">>),
     Meta(Null, TwitterC, Null, <<"A">>), Meta(Null, TwitterC, Null, <<"B">>),
     Meta(Null, <<"d">>, Null, <<"A">>), Meta(Null, <<"d">>, Null, <<"B">>),
     Meta(Null, <<"d">>, Null, <<>>), Meta(Null, Null, <<"d">>, <<"A">>),
     Meta(Null, OgT, Null, <<"A">>), Meta(Null, Null, TwitterC, <<"B">>)}

MetadataInputs == SeqsUpTo(MetaElements, MaxMetas)

MetadataPending ==
    [kind |-> "called", json_ld |-> <<>>, opengraph |-> EmptyDict, twitter |-> EmptyDict,
     meta |-> EmptyDict]

InitMetadata ==
    /\ MainInit
    /\ robots = NoRobots
    /\ \E a \in MetadataInputs :
           pure = [fn |-> "metadata", args |-> a, result |-> MetadataPending]

ExtractMetadata ==
    /\ pure.fn = "metadata"
    /\ pure.result.kind = "called"
    /\ pure' = [pure EXCEPT !.result = extract_metadata(pure.args)]
    /\ UNCHANGED <<mainVars, robots>>

NextMetadata == ExtractMetadata

\* extract_metadata on parsed documents
SpecMetadata == InitMetadata /\ [][NextMetadata]_vars

\* ------------------------------------------------------------------ claims
EndedPcs == {"rejected", "failed", "returned", "cancelled"}

\* C1: in a fetch_bulk call with valid input, the failure of an item shows
\* only as that item's error entry: no item ends with an exception of its
\* own, and the call does not fail once its items have been started.
C1_ItemFailuresStayInTheirEntry ==
    /\ \A i \in ItemIds : items[i].pc # "raised"
    /\ bulk.pc = "failed" => items = <<>>

\* C2: a fetch_bulk call that returns has one result per input url, and
\* result i carries urls[i], whatever the order in which the items finished.
C2_ResultsInInputOrder ==
    bulk.pc = "returned" =>
        /\ Len(bulk.results) = Len(bulk.urls)
        /\ \A i \in 1..Len(bulk.urls) : bulk.results[i].url = bulk.urls[i]

\* a call of two different urls has returned, its second item having
\* finished before its first
C2_Witness ==
    /\ bulk.pc = "returned"
    /\ Len(bulk.urls) = 2
    /\ bulk.urls[1] # bulk.urls[2]
    /\ completed[1] = 2

\* C3: at every moment the items that hold a slot of the gate (sleeping
\* their delay or with a request in flight) are at most max_concurrency.
C3_GateBound == Cardinality(Holding) <= bulk.max_concurrency

\* the gate is full while an item waits for it
C3_Witness ==
    /\ bulk.pc = "gathering"
    /\ Cardinality(Holding) = bulk.max_concurrency
    /\ \E i \in ItemIds : items[i].pc = "waiting"

\* C7: when a fetch_bulk call has been cancelled and its items have stopped,
\* every slot of the gate is free again.
C7_CancelReleasesGate ==
    (bulk.pc \in {"cancelling", "cancelled"} /\ items # <<>> /\ AllStopped) =>
        sem = bulk.max_concurrency

\* a cancelled call whose items were cancelled while one slept its delay
\* and one had its request in flight
C7_Witness ==
    /\ bulk.pc = "cancelled"
    /\ AllStopped
    /\ \E i \in ItemIds : items[i].err = Err("CancelledError", "sleeping")
    /\ \E i \in ItemIds : items[i].err = Err("CancelledError", "inflight")

\* C4: once a call has ended, by return, FetchError, another exception or
\* cancellation, its throwaway session is not open.
C4_ThrowawaySessionClosed ==
    /\ \A c \in Calls : calls[c].pc \in EndedPcs => eph[c] # "open"
    /\ bulk.pc \in EndedPcs => eph[BulkId] # "open"

\* one call with session_options was cancelled and another failed with an
\* exception that is not a FetchError; both sessions were opened and closed
C4_Witness ==
    \E c, d \in Calls :
        /\ calls[c].pc = "cancelled"
        /\ eph[c] = "closed"
        /\ calls[d].pc = "failed"
        /\ calls[d].err.type = "RuntimeError"
        /\ eph[d] = "closed"

SessionOptionsOf(c) == IF c = BulkId THEN bulk.sess ELSE calls[c].params.sess

\* every request in flight is on the session of its call, and the shared
\* session is open while the lifespan runs
RequestsOnTheirSession ==
    /\ \A r \in inflight :
           r.session = IF SessionOptionsOf(r.call) = Null
                       THEN SharedSession ELSE EphSession(r.call)
    /\ lifespan = "running" => shared.state = "open"

C6_LifespanOwnsSharedSession ==
    /\ lifespan = "not_started" => shared = [state |-> "none", created |-> 0]
    /\ lifespan = "running" => shared = [state |-> "open", created |-> 1]
    /\ lifespan \in {"returned", "failed"} => shared = [state |-> "closed", created |-> 1]

\* the lifespan has ended by an exception
C6_Witness == lifespan = "failed" /\ shared.state = "closed"

HasHttpPrefix(url) == StartsWith(url, HttpPrefix) \/ StartsWith(url, HttpsPrefix)

HttpSchemes == {<<"h", "t", "t", "p">>, <<"h", "t", "t", "p", "s">>}

\* the scheme a url is written with: what precedes its first colon
SchemeText(url) ==
    IF Contains(url, ":")
    THEN Lower(SubSeq(Strip(url), 1, Find(Strip(url), ":", 1) - 1))
    ELSE <<>>

\* C8: every request in flight is for an http or https url; a tool call
\* whose url lacks the http:// or https:// prefix is rejected by validation;
\* _fetch called with another scheme fails with ValueError.
C8_OnlyHttpRequests ==
    /\ \A r \in inflight : SchemeText(r.url) \in HttpSchemes
    /\ \A c \in Calls :
           (calls[c].params.tool \in Tools /\ ~HasHttpPrefix(calls[c].params.url)) =>
               calls[c].pc = "rejected"
    /\ (bulk.pc # "idle" /\ \E i \in 1..Len(bulk.urls) : ~HasHttpPrefix(bulk.urls[i])) =>
           bulk.pc = "rejected"
    /\ \A c \in Calls :
           (calls[c].params.tool = "fetch"
               /\ SchemeText(calls[c].params.url) \notin HttpSchemes) =>
               (calls[c].pc = "failed" /\ calls[c].err.type = "ValueError")

\* validation has rejected a tool call for ftp://a and _fetch has refused
\* mailto:a
C8_Witness ==
    \E c, d \in Calls :
        /\ calls[c].pc = "rejected"
        /\ calls[c].params.url = FtpA
        /\ calls[d].pc = "failed"
        /\ calls[d].params.tool = "fetch"
        /\ calls[d].params.url = MailtoA
        /\ calls[d].err = Err("ValueError", "Only http/https URLs are supported.")

PatternDoesNotCompile(params) ==
    /\ params.tool = "extract_links"
    /\ params.pattern \notin {Null, <<>>}
    /\ ~re_compile_ok(params.pattern)

\* C9: no request is in flight for an extract_links call whose pattern does
\* not compile.
C9_BadPatternBeforeNetwork ==
    \A r \in inflight : r.call \in Calls => ~PatternDoesNotCompile(calls[r.call].params)

InvalidJsonBody(params) ==
    /\ params.tool = "fetch_json"
    /\ params.method = "POST"
    /\ params.body \notin {Null, <<>>}
    /\ ~json_loads_ok(params.body)

TruncateExpected(v, n, r) ==
    IF n <= 0 THEN r = TruncatedAtZero
    ELSE IF Len(v) <= n THEN r = v
    ELSE \E k \in 0..n :
            /\ r = SubSeq(v, 1, k) \o <<"\n">> \o TruncatedAt \o str_int(n) \o CharsSuffix
            /\ k = 0 \/ v[k] \notin Whitespace
            /\ \A j \in (k + 1)..n : v[j] \in Whitespace

TruncateCopies == {"client", "parser", "server"}

\* C14: each of the three copies of truncate (client, parser, server) gives
\* "[truncated at 0 chars]" for n <= 0, v unchanged when len(v) <= n, and
\* otherwise v[:n] without its trailing whitespace, a newline and
\* "[truncated at {n} chars]"; the three copies give the same result
C14_TruncateCopiesAgree ==
    pure.fn = "truncate" =>
        /\ \A c \in TruncateCopies :
              pure.result[c] # Null =>
                  TruncateExpected(pure.args.value, pure.args.max_chars, pure.result[c])
        /\ \A c, d \in TruncateCopies :
              pure.result[c] # Null /\ pure.result[d] # Null =>
                  pure.result[c] = pure.result[d]

\* the three copies have cut a string whose first n characters end in
\* whitespace
C14_Witness ==
    /\ pure.fn = "truncate"
    /\ \A c \in TruncateCopies : pure.result[c] # Null
    /\ pure.args.max_chars > 0
    /\ Len(pure.args.value) > pure.args.max_chars
    /\ pure.args.value[pure.args.max_chars] \in Whitespace
    /\ pure.args.value[1] \notin Whitespace

\* the marker truncate appends at 300 characters
Marker300 ==
    <<"[", "t", "r", "u", "n", "c", "a", "t", "e", "d", " ", "a", "t", " ", "3", "0",
      "0", " ", "c", "h", "a", "r", "s", "]">>

\* the decimal text of the status codes
StatusText(code) ==
    CASE code = 400 -> <<"4", "0", "0">>
      [] code = 404 -> <<"4", "0", "4">>
      [] code = 500 -> <<"5", "0", "0">>
      [] OTHER -> <<"?">>

\* _fetch has ended after a response with status >= 400
FetchGotHttpError ==
    /\ pure.fn = "fetch"
    /\ pure.result.kind \in {"raise", "return"}
    /\ pure.result.outcome.kind = "response"
    /\ pure.result.outcome.status >= 400

\* the message of an HTTP error with the given snippet
HttpErrorMessage(code, snippet) ==
    IF snippet = <<>> THEN HttpWord \o StatusText(code) \o ErrorDot
    ELSE HttpWord \o StatusText(code) \o ErrorSnippetInfix \o snippet

\* the statement of C11 as it was made: for a response with status >= 400
\* fetch raises FetchError, the message is "HTTP {code} error. Response
\* snippet: " and the first 300 characters of the body (trimmed), or
\* "HTTP {code} error." when the body is empty after trimming, and the
\* snippet has at most 300 characters
C11_SnippetIsFirst300 ==
    FetchGotHttpError =>
        LET body == pure.result.outcome.text
            first == SubSeq(body, 1, IF Len(body) < 300 THEN Len(body) ELSE 300)
            snippet == IF Strip(body) = <<>> THEN <<>> ELSE Strip(first)
        IN  /\ pure.result.kind = "raise"
            /\ pure.result.type = "FetchError"
            /\ pure.result.msg = HttpErrorMessage(pure.result.outcome.status, snippet)
            /\ Len(snippet) <= 300

\* C11: for every response with status >= 400, fetch raises FetchError and
\* returns no FetchResult; the message is "HTTP {code} error. Response
\* snippet: " and the snippet, or "HTTP {code} error." when the snippet is
\* empty, where the snippet is the body cut by truncate at 300 and trimmed:
\* the trimmed body when it has at most 300 characters, else its first 300
\* characters without trailing whitespace, a newline and "[truncated at 300
\* chars]"; the snippet has at most 325 characters
C11_HttpErrorSnippet ==
    FetchGotHttpError =>
        LET body == pure.result.outcome.text
            cut == IF Len(body) <= 300 THEN body
                   ELSE RStrip(SubSeq(body, 1, 300)) \o <<"\n">> \o Marker300
            snippet == Strip(cut)
        IN  /\ pure.result.kind = "raise"
            /\ pure.result.type = "FetchError"
            /\ pure.result.msg = HttpErrorMessage(pure.result.outcome.status, snippet)
            /\ Len(snippet) <= 325

\* fetch has failed on a response with status >= 400 and a body of more
\* than 300 characters
C11_Witness ==
    /\ FetchGotHttpError
    /\ pure.result.kind = "raise"
    /\ Len(pure.result.outcome.text) > 300
    /\ Len(pure.result.msg) > 300

\* the message the claim gives for a transport exception of class c
TransportMessage(o) ==
    CASE o.class = "Timeout" -> TimedOutMsg
      [] o.class \in {"DNSError", "ConnectionError"} -> ConnectionFailedMsg
      [] o.class \in {"SSLError", "CertificateVerifyError", "ImpersonateError"} -> TlsErrorMsg
      [] OTHER -> RequestFailedPrefix \o o.name \o ColonSpace \o o.msg

\* C12: a failure of fetch caused by the transport is a FetchError with the
\* message of the class of the exception (timeout, DNS/connection,
\* TLS/impersonation, or "Request failed: {type}: {message}"); a failure
\* caused by the options (a TypeError or ValueError of the transport, an
\* unknown curl option name) is a FetchError that starts with "Invalid
\* curl_cffi options"; no other exception type leaves fetch for these causes
C12_TransportFailuresAreFetchErrors ==
    (pure.fn = "fetch" /\ pure.result.kind \in {"raise", "return"}) =>
        LET o == pure.result.outcome
            res == pure.result
            badKey == /\ pure.args.url = HttpA
                      /\ pure.args.curl_options # Null
                      /\ \E i \in 1..Len(pure.args.curl_options) :
                            pure.args.curl_options[i] \notin CurlOptNames
        IN  /\ (o.kind = "exception" /\ "RequestException" \in o.classes) =>
                  /\ res.kind = "raise"
                  /\ res.type = "FetchError"
                  /\ res.msg = TransportMessage(o)
            /\ (o.kind = "exception" /\ o.class \in {"TypeError", "ValueError"}) =>
                  /\ res.kind = "raise"
                  /\ res.type = "FetchError"
                  /\ StartsWith(res.msg, InvalidOptionsPrefix)
            /\ badKey =>
                  /\ res.kind = "raise"
                  /\ res.type = "FetchError"

\* ------------------------------------------------------- claims on retries
\* no call and no item has made more than one transport request
AtMostOneRequest == \A s \in Slots : sent[s] <= 1

\* item i of the fetch_bulk call has failed
ItemFailed(i) == items[i].pc \in {"error", "raised"}

\* the item whose exception gather has passed on to the call: of the items
\* that raised, the one that finished first
FirstRaised(i) ==
    /\ items[i].pc = "raised"
    /\ \E k \in 1..Len(completed) :
          /\ completed[k] = i
          /\ \A l \in 1..(k - 1) : items[completed[l]].pc # "raised"

\* the number of places the caller is told of the failure of item i: its
\* error entry in the returned list, the error the call failed with
Reports(i) ==
    (IF bulk.pc = "returned" /\ bulk.results[i].status = "error" THEN 1 ELSE 0)
    + (IF bulk.pc = "failed" /\ FirstRaised(i) THEN 1 ELSE 0)

\* C13: no retry: every call and every fetch_bulk item makes at most one
\* transport request, and each failure is reported exactly once: a failed
\* single-URL call carries its one error, and once a fetch_bulk call has
\* returned or failed and its items have ended, each failed item shows up
\* once, as its error entry or as the error of the call
C13_NoRetryReportedOnce ==
    /\ AtMostOneRequest
    /\ \A c \in Calls : calls[c].pc = "failed" => calls[c].err # Ok
    /\ (bulk.pc \in {"returned", "failed"} /\ AllStopped) =>
           \A i \in ItemIds : ItemFailed(i) => Reports(i) = 1

\* the value request_options holds for key k, <<>> when it holds none
RequestOptionValue(a, k) ==
    IF a.request_options = <<>> THEN <<>> ELSE a.request_options[1][k]

\* the value of the call's own field for key k, <<>> when the tool has no
\* such field or the field is None
CallFieldValue(a, k) ==
    LET fields == tool_overrides(a.tool, a.headers)
    IN  IF k \in DOMAIN fields THEN fields[k] ELSE <<>>

\* key k of the keyword arguments holds exactly the optional value v
KwargIs(kwargs, k, v) ==
    IF v = <<>> THEN k \notin DOMAIN kwargs
    ELSE k \in DOMAIN kwargs /\ kwargs[k] = v

\* C15: in the options a tool hands to the transport, each call field that
\* is not None (headers, impersonate, timeout, follow_redirects as
\* allow_redirects) replaces the same key of request_options, a call field
\* that is None leaves the value of request_options in place, and every
\* other key of request_options is passed unchanged
C15_CallFieldsReplaceOptions ==
    (pure.fn = "merge" /\ pure.result.pc = "requested") =>
        LET a == pure.args
            kwargs == pure.result.kwargs
        IN  /\ \A k \in {"headers", "impersonate", "timeout", "allow_redirects"} :
                  IF CallFieldValue(a, k) # <<>>
                  THEN KwargIs(kwargs, k, CallFieldValue(a, k))
                  ELSE KwargIs(kwargs, k, RequestOptionValue(a, k))
            /\ KwargIs(kwargs, "referer", RequestOptionValue(a, "referer"))
            /\ RequestOptionValue(a, "json") # <<>> =>
                  KwargIs(kwargs, "json", RequestOptionValue(a, "json"))
            /\ LET entries == RequestOptionValue(a, "curl_options")
               IN  IF entries # <<>> /\ entries[1] # <<>>
                   THEN /\ "curl_options" \in DOMAIN kwargs
                        /\ \A i \in 1..Len(entries[1]) :
                              (\A j \in (i + 1)..Len(entries[1]) :
                                   entries[1][j].option # entries[1][i].option) =>
                                  /\ entries[1][i].option \in DOMAIN kwargs["curl_options"][1]
                                  /\ kwargs["curl_options"][1][entries[1][i].option]
                                         = entries[1][i].value
                   ELSE "curl_options" \notin DOMAIN kwargs

\* a fetch_json call whose headers replace those of request_options, whose
\* request_options keep their timeout and referer, and a curl option
C15_Witness ==
    /\ pure.fn = "merge"
    /\ pure.result.pc = "requested"
    /\ pure.args.tool = "fetch_json"
    /\ pure.args.headers = <<"call">>
    /\ RequestOptionValue(pure.args, "headers") = <<"ro">>
    /\ RequestOptionValue(pure.args, "impersonate") = <<"ro">>
    /\ RequestOptionValue(pure.args, "timeout") = <<"ro">>
    /\ RequestOptionValue(pure.args, "referer") = <<"ro">>
    /\ RequestOptionValue(pure.args, "curl_options") # <<>>
    /\ pure.result.kwargs["headers"] = <<"call">>
    /\ pure.result.kwargs["impersonate"] = <<"call">>
    /\ pure.result.kwargs["timeout"] = <<"ro">>
    /\ pure.result.kwargs["referer"] = <<"ro">>
    /\ "curl_options" \in DOMAIN pure.result.kwargs

\* C16: fetch_json never fails on the content of a response: a body that is
\* valid JSON is returned pretty-printed with an indent of two blanks, any
\* other body as the warning line followed by the raw text, both cut by
\* truncate at max_chars
C16_JsonOrWarning ==
    (pure.fn = "fetch_json" /\ pure.args.status < 400) =>
        /\ pure.result.pc # "failed"
        /\ pure.result.pc = "returned" =>
              pure.result.out =
                  IF json_loads_ok(pure.args.body)
                  THEN server_truncate(json_dumps_indent(pure.args.body), pure.args.max_chars)
                  ELSE server_truncate(NotValidJsonWarning \o <<"\n">> \o pure.args.body,
                                       pure.args.max_chars)

\* the step reads one line of the robots.txt text
RobotsLineStep ==
    /\ robots.pc = "loop"
    /\ robots'.pc = "loop"
    /\ robots'.i = robots.i + 1

\* the branch taken by the line of index k
RobotsBranchAt(k) == robots_branch(robots.lines[k])

\* C17: in parse_robots_txt a blank line empties the active agents, and an
\* allow, disallow or crawl-delay line read while no agent is active changes
\* nothing: no agent entry is created or modified, and the parser goes on
C17_BlankResetsRuleWithoutAgentIgnored ==
    [][RobotsLineStep =>
          /\ RobotsBranchAt(robots.i) = "blank" => robots'.current_agents = <<>>
          /\ (/\ RobotsBranchAt(robots.i) \in {"allow", "disallow", "crawl-delay"}
              /\ robots.current_agents = <<>>) =>
                 /\ robots'.user_agents = robots.user_agents
                 /\ robots'.sitemaps = robots.sitemaps
                 /\ robots'.current_agents = robots.current_agents]_vars

\* a user-agent line, a blank line and a disallow line have been read: no
\* agent is active and the agent of the first line has no rule
C17_Witness ==
    /\ robots.pc \in {"loop", "returned"}
    /\ robots.i = 4
    /\ RobotsBranchAt(1) = "user-agent"
    /\ RobotsBranchAt(2) = "blank"
    /\ RobotsBranchAt(3) = "disallow"
    /\ robots.current_agents = <<>>
    /\ \A a \in DOMAIN robots.user_agents : robots.user_agents[a].disallow = <<>>
    /\ DOMAIN robots.user_agents # {}

\* the agents of the group a rule line at index i belongs to: those named by
\* the run of consecutive user-agent lines that ends at the last user-agent
\* line before i, none when a blank line lies between that line and i or no
\* user-agent line precedes i
RobotsGroup(lines, i) ==
    LET uas == {k \in 1..(i - 1) : robots_branch(lines[k]) = "user-agent"}
    IN  IF uas = {} THEN {}
        ELSE LET last == CHOOSE k \in uas : \A l \in uas : l <= k
                 first == CHOOSE k \in 1..last :
                              /\ \A l \in k..last : l \in uas
                              /\ \A j \in 1..(k - 1) : \E l \in j..last : l \notin uas
             IN  IF \E k \in last..(i - 1) : robots_branch(lines[k]) = "blank" THEN {}
                 ELSE {robots_value(robots_line(lines[k])) : k \in first..last}

\* C18: consecutive user-agent lines form one group, and each following
\* allow or disallow line appends its value exactly once to the matching
\* list of every agent of the group, and changes the list of no other agent
C18_RuleOncePerGroupAgent ==
    [][(RobotsLineStep /\ RobotsBranchAt(robots.i) \in {"allow", "disallow"}) =>
          LET value == robots_value(robots_line(robots.lines[robots.i]))
              field == RobotsBranchAt(robots.i)
              group == RobotsGroup(robots.lines, robots.i)
          IN  /\ DOMAIN robots'.user_agents = DOMAIN robots.user_agents
              /\ \A a \in DOMAIN robots.user_agents :
                    robots'.user_agents[a][field] =
                        IF a \in group THEN Append(robots.user_agents[a][field], value)
                        ELSE robots.user_agents[a][field]]_vars

\* the values of the sitemap lines read so far, each at its first occurrence
FirstSitemapLines(r) ==
    {k \in 1..(r.i - 1) :
        /\ robots_branch(r.lines[k]) = "sitemap"
        /\ \A l \in 1..(k - 1) :
              robots_branch(r.lines[l]) = "sitemap" =>
                  robots_value(robots_line(r.lines[l])) # robots_value(robots_line(r.lines[k]))}

\* sitemaps holds every distinct sitemap value read so far once, in the
\* order of the first occurrences
SitemapsInFirstOrder(r) ==
    /\ Len(r.sitemaps) = Cardinality(FirstSitemapLines(r))
    /\ \A k \in FirstSitemapLines(r) :
          r.sitemaps[Cardinality({l \in FirstSitemapLines(r) : l <= k})]
              = robots_value(robots_line(r.lines[k]))

\* C19: the sitemaps list holds every distinct sitemap value exactly once,
\* in the order of its first occurrence, whatever group the line is in, and
\* a sitemap line changes no agent entry and not the active agents
C19_SitemapsDistinctInOrder ==
    [][RobotsLineStep =>
          /\ SitemapsInFirstOrder(robots')
          /\ RobotsBranchAt(robots.i) = "sitemap" =>
                /\ robots'.user_agents = robots.user_agents
                /\ robots'.current_agents = robots.current_agents]_vars

\* sitemap s, sitemap t and s again have been read, inside a group: the list
\* is s, t and the agent is still active
C19_Witness ==
    /\ robots.pc \in {"loop", "returned"}
    /\ robots.i = 5
    /\ RobotsBranchAt(1) = "user-agent"
    /\ \A k \in 2..4 : RobotsBranchAt(k) = "sitemap"
    /\ robots_value(robots_line(robots.lines[2])) # robots_value(robots_line(robots.lines[3]))
    /\ robots_value(robots_line(robots.lines[2])) = robots_value(robots_line(robots.lines[4]))
    /\ Len(robots.sitemaps) = 2
    /\ robots.sitemaps[1] = robots_value(robots_line(robots.lines[2]))
    /\ Len(robots.current_agents) = 1

\* s holds p as a substring
HasSubstring(s, p) == \E i \in 1..(Len(s) - Len(p) + 1) : SubSeq(s, i, i + Len(p) - 1) = p

InvalidXmlFeedText ==
    <<"I", "n", "v", "a", "l", "i", "d", " ", "X", "M", "L", " ", "f", "e", "e", "d">>

UnrecognizedFeedText ==
    <<"U", "n", "r", "e", "c", "o", "g", "n", "i", "z", "e", "d", " ", "f", "e", "e", "d", " ",
      "f", "o", "r", "m", "a", "t">>

\* the root element of a well-formed text is rss, or feed in the Atom
\* namespace or in none
FeedRoot(root) ==
    \/ root.local = <<"r", "s", "s">>
    \/ root.local = <<"f", "e", "e", "d">> /\ root.ns \in {<<>>, ATOM_NS}

\* what the claim expects of an outcome for the text
FeedOutcomeExpected(feed_text, outcome, error) ==
    LET text == xml_strip(feed_text)
    IN  IF ~fromstring_ok(text)
        THEN /\ outcome.kind = "raise"
             /\ outcome.type = error
             /\ HasSubstring(outcome.msg, InvalidXmlFeedText)
        ELSE IF FeedRoot(text[1])
        THEN outcome.kind = "return"
        ELSE /\ outcome.kind = "raise"
             /\ outcome.type = error
             /\ HasSubstring(outcome.msg, UnrecognizedFeedText)

\* C20: parse_feed returns a feed document only when the root element is rss
\* or feed (Atom, with or without the Atom namespace); malformed XML fails
\* with a message containing "Invalid XML feed", every other root element
\* with one containing "Unrecognized feed format", and the fetch_feed tool
\* raises both as FetchError
C20_FeedRootDispatch ==
    pure.fn = "feed" =>
        /\ pure.result.parsed.kind # "called" =>
              FeedOutcomeExpected(pure.args.xml_text, pure.result.parsed, "ValueError")
        /\ pure.result.tool.kind # "called" =>
              FeedOutcomeExpected(pure.args.xml_text, pure.result.tool, "FetchError")

\* the tool has raised FetchError for a well-formed text whose root is feed
\* in a namespace that is not Atom's
C20_Witness ==
    /\ pure.fn = "feed"
    /\ pure.result.tool.kind = "raise"
    /\ pure.result.tool.type = "FetchError"
    /\ fromstring_ok(xml_strip(pure.args.xml_text))
    /\ xml_strip(pure.args.xml_text)[1].local = <<"f", "e", "e", "d">>
    /\ xml_strip(pure.args.xml_text)[1].ns = OtherNs
    /\ Len(xml_strip(pure.args.xml_text)) < Len(pure.args.xml_text)

\* the positions of the item/entry elements among the children of the feed
FeedItemPositions(a) == {i \in 1..Len(a.children) : a.children[i].kind = "item"}

\* the position of the j-th item/entry element in document order
FeedItemPosition(a, j) ==
    CHOOSE i \in FeedItemPositions(a) : Cardinality({l \in FeedItemPositions(a) : l <= i}) = j

\* a Python str, as opposed to None
IsStr(v) == v # Null

\* the title the j-th item/entry element gives: its stripped text, "" when
\* the element has no title or the title no text
FeedItemTitle(a, j) ==
    LET title == a.children[FeedItemPosition(a, j)].shape.title
    IN  IF title = <<>> \/ title[1] = <<>> THEN <<>> ELSE Strip(title[1][1])

\* C21: for every RSS or Atom feed and every max_items, parse_feed returns
\* the first min(max_items, n) of the n item/entry elements of the feed in
\* document order, never more than max_items, and every field of every item
\* is a string, the empty one for a missing sub-element
C21_FirstItemsInOrder ==
    (pure.fn = "feed_items" /\ pure.result.kind # "called") =>
        LET a == pure.args
            n == Cardinality(FeedItemPositions(a))
            out == pure.result.items
        IN  /\ pure.result.kind = "return"
            /\ Len(out) = IF a.max_items < n THEN a.max_items ELSE n
            /\ Len(out) <= a.max_items
            /\ \A j \in 1..Len(out) :
                  /\ out[j].title = FeedItemTitle(a, j)
                  /\ IsStr(out[j].title)
                  /\ IsStr(out[j].link)
                  /\ IsStr(out[j].published)
                  /\ IsStr(out[j].summary)

\* the positions of the elements extract_links is to report: matched by
\* the selector, with an href that is not blank and, when a pattern is
\* given, holds a match of it
LinkPositions(a) ==
    {i \in 1..Len(a.document) :
        /\ a.document[i].matches
        /\ a.document[i].href # Null
        /\ Strip(a.document[i].href) # <<>>
        /\ a.pattern \in {Null, <<>>} \/ HasSubstring(Strip(a.document[i].href), a.pattern)}

\* C22: extract_links returns, in document order, the first max_results
\* elements matching the selector whose trimmed href is not empty and holds
\* a match of the pattern when one is given; never more than max_results
\* entries, for every max_results >= 0, and never an entry with an empty href
C22_FirstMatchingLinks ==
    (pure.fn = "links" /\ pure.result.kind = "return") =>
        LET a == pure.args
            out == pure.result.results
            wanted == LinkPositions(a)
        IN  /\ Len(out) <= a.max_results
            /\ Len(out) = IF a.max_results < Cardinality(wanted) THEN a.max_results
                          ELSE Cardinality(wanted)
            /\ \A j \in 1..Len(out) :
                  /\ out[j].position \in wanted
                  /\ Cardinality({l \in wanted : l <= out[j].position}) = j
                  /\ out[j].href = Strip(a.document[out[j].position].href)
                  /\ out[j].href # <<>>

\* the texts of the cells of a row of a table input
OwnCellTexts(cells) == [i \in 1..Len(cells) |-> normalize_whitespace(get_text(cells[i]))]

\* the rows of the table of an input in document order: those of its header
\* section, its body rows, the row of its foot section
OwnRows(a) ==
    (IF a.thead = <<>> THEN <<>> ELSE a.thead[1]) \o a.rows
        \o (IF a.foot = <<>> THEN <<>> ELSE a.foot)

\* the entry of the table of the input (the first table of the document)
OuterTable == pure.result.tables[1]

TablesDone == pure.fn = "tables" /\ pure.result.kind = "return"

\* the document of the input holds a node of the given name
HasNode(a, name) == \E i \in 1..Len(DescendantsOf(<<TableDocument(a)>>)) :
                        DescendantsOf(<<TableDocument(a)>>)[i].name = name

\* the input has a table nested in a cell
HasNested(a) == Len(find_all(TableDocument(a), {"table"})) > 1

\* C23: if the table has a header section, the headers are the cell texts
\* (th or td) of the first row inside it; only when it has no header section,
\* they are the cell texts of the very first row of the table if that row
\* has a th cell; in every other case headers is the empty list
C23_HeaderDetection ==
    TablesDone =>
        LET a == pure.args
        IN  OuterTable.headers =
                IF a.thead # <<>>
                THEN IF a.thead[1] = <<>> THEN <<>> ELSE OwnCellTexts(a.thead[1][1])
                ELSE IF OwnRows(a) # <<>>
                        /\ \E i \in 1..Len(OwnRows(a)[1]) : OwnRows(a)[1][i].name = "th"
                THEN OwnCellTexts(OwnRows(a)[1])
                ELSE <<>>

\* C24: when headers are not empty and the first collected body row equals
\* them, exactly that one row is dropped; no other row is dropped by the rule
\* (a later row equal to the headers stays, nothing is dropped when headers
\* are empty), and a row whose cells are all empty never appears
C24_HeaderRowDroppedOnce ==
    TablesDone =>
        \A t \in 1..Len(pure.result.tables) :
            LET e == pure.result.tables[t]
            IN  /\ IF e.headers # <<>> /\ e.collected # <<>> /\ e.collected[1] = e.headers
                   THEN /\ Len(e.rows) = Len(e.collected) - 1
                        /\ \A j \in 1..Len(e.rows) : e.rows[j] = e.collected[j + 1]
                   ELSE e.rows = e.collected
                /\ \A j \in 1..Len(e.rows) : \E k \in 1..Len(e.rows[j]) : e.rows[j][k] # <<>>

\* the first body row repeated the headers and was dropped, the third row
\* repeats them too and stays
C24_Witness ==
    /\ TablesDone
    /\ OuterTable.headers # <<>>
    /\ Len(OuterTable.collected) = 3
    /\ OuterTable.collected[1] = OuterTable.headers
    /\ OuterTable.collected[3] = OuterTable.headers
    /\ Len(OuterTable.rows) = 2
    /\ OuterTable.rows[2] = OuterTable.headers

\* the rows of a list with a cell that is not empty
NonEmptyRows(rows) == SelectSeq([i \in 1..Len(rows) |-> OwnCellTexts(rows[i])], any_cell)

C30_NoNestedRows ==
    TablesDone =>
        OuterTable.collected = NonEmptyRows(IF pure.args.tbody THEN pure.args.rows
                                            ELSE OwnRows(pure.args))

\* f"[selector not found: {selector}]", the line of a selector not found
SelectorNotFoundLine(selector) == SelectorNotFound \o selector \o <<"]">>

\* _clean_html has returned for a selector that matches no element left in
\* the document
SelectorMatchedNothing ==
    /\ pure.fn = "clean"
    /\ pure.result.kind = "return"
    /\ pure.args.selector \notin {Null, <<>>}
    /\ select_one(decompose_noise(pure.args.document), pure.args.selector) = <<>>

\* the rendering of the whole body: what reducing without a selector and
\* without a cut gives
WholeBodyRendering(document) == clean_html(document, Null, 1000000)

\* the line of the selector, then a blank line and the rendering of the
\* whole body when there is one, cut to max_chars as every output is
FallbackExpected(a) ==
    LET whole == WholeBodyRendering(a.document)
        full == SelectorNotFoundLine(a.selector)
                    \o (IF whole = <<>> THEN <<>> ELSE <<"\n", "\n">> \o whole)
    IN  IF Len(full) <= a.max_chars THEN full
        ELSE RStrip(SubSeq(full, 1, a.max_chars)) \o <<"\n">> \o TruncatedAt
                 \o str_int(a.max_chars) \o CharsSuffix

MetadataDone == pure.fn = "metadata" /\ pure.result.kind # "called"

\* the positions of the meta elements of the document whose attribute
\* starts with the prefix and goes on with the key
PrefixedAt(document, attr, prefix, key) ==
    {i \in 1..Len(document) :
        /\ document[i].tag = "meta"
        /\ document[i][attr] # Null
        /\ document[i][attr] = prefix \o key}

\* the name or, without a name, the http-equiv of a meta element
NameOrHttpEquiv(el) == IF el.name \notin {Null, <<>>} THEN el.name ELSE el.http_equiv

\* the positions of the meta elements with this name and with a content
NamedAt(document, key) ==
    {i \in 1..Len(document) :
        /\ document[i].tag = "meta"
        /\ NameOrHttpEquiv(document[i]) = key
        /\ document[i].content \notin {Null, <<>>}}

LastOf(positions) == CHOOSE i \in positions : \A j \in positions : j <= i

MetaKeys == {<<>>, <<"t">>, <<"c">>, <<"d">>, OgT, TwitterC}

\* the map has exactly the keys of the elements with the prefix, each with
\* the content of the last of them
PrefixedMapExpected(map, document, attr, prefix) ==
    \A key \in MetaKeys :
        LET at == PrefixedAt(document, attr, prefix, key)
        IN  /\ key \in DOMAIN map <=> at # {}
            /\ at # {} => map[key] = <<attr_str(document[LastOf(at)].content)>>

\* the JSON-LD blocks of the document that parse, in document order
ParsedBlocks(document) ==
    LET scripts == SelectSeq(document, LAMBDA el : el.tag = "script" /\ el.type = LdJson)
        raws == [i \in 1..Len(scripts) |->
                    IF scripts[i].string = Null THEN <<>> ELSE Strip(scripts[i].string)]
    IN  SelectSeq(raws, LAMBDA raw : IsJsonValue(raw) /\ LeadingDepth(raw) <= JsonRecursionLimit)

\* C27: extract_metadata returns the opengraph map of the meta property
\* values starting with og:, the twitter map of the meta name values
\* starting with twitter:, a generic map without og: and twitter: keys, in
\* each map the last element in document order wins, and a JSON-LD block
\* that fails to parse is dropped while the other blocks and the maps stay.
C27_MetadataMapsAndJsonLd ==
    MetadataDone =>
        /\ pure.result.kind = "return"
        /\ PrefixedMapExpected(pure.result.opengraph, pure.args, "property", OgPrefix)
        /\ PrefixedMapExpected(pure.result.twitter, pure.args, "name", TwitterPrefix)
        /\ \A key \in DOMAIN pure.result.meta :
               /\ ~StartsWith(key, OgPrefix)
               /\ ~StartsWith(key, TwitterPrefix)
               /\ NamedAt(pure.args, key) # {}
               /\ pure.result.meta[key] = <<pure.args[LastOf(NamedAt(pure.args, key))].content>>
        /\ pure.result.json_ld = ParsedBlocks(pure.args)

\* the slots of the gate taken and not given back
SlotsTaken == bulk.max_concurrency - sem

\* item i has its request in flight
ItemInFlight(i) == \E r \in inflight : r.call = BulkId /\ r.item = i

\* what holds of the items between two steps: the items that sleep or have
\* their request in flight are the holders of the taken slots, an item sleeps
\* only for a delay > 0 and before its request, and an item has made its one
\* request when it is in flight and none while it waits or sleeps
ItemsHoldTheirSlots ==
    bulk.pc \in {"gathering", "cancelling", "failed", "cancelled", "returned"} =>
        /\ Cardinality(Holding) = SlotsTaken
        /\ \A i \in ItemIds :
               /\ items[i].pc = "sleeping" => bulk.delay > 0
               /\ items[i].pc \in {"waiting", "sleeping"} => sent[<<BulkId, i>>] = 0
               /\ items[i].pc = "inflight" <=> ItemInFlight(i)
               /\ items[i].pc = "inflight" => sent[<<BulkId, i>>] = 1
               /\ sent[<<BulkId, i>>] <= 1

\* one step of item i: it takes its slot when it leaves the wait for the gate,
\* sleeps first when delay > 0, makes its request with the slot it took, and
\* gives the slot back when it stops
ItemStepInOrder(i) ==
    LET before == items[i].pc
        after == items'[i].pc
    IN  /\ (before = "waiting" /\ after = "sleeping") =>
               bulk.delay > 0 /\ sem > 0 /\ sem' = sem - 1
        /\ (before = "waiting" /\ after = "inflight") =>
               bulk.delay = 0 /\ sem > 0 /\ sem' = sem - 1
        /\ (before = "waiting" /\ after \in {"ok", "error"}) => FALSE
        /\ (before = "waiting" /\ after = "raised") => bulk.delay = 0 /\ sem > 0 /\ sem' = sem
        /\ (before = "waiting" /\ after = "cancelled") => sem' = sem
        /\ (before = "sleeping" /\ after = "inflight") => sem' = sem
        /\ (before = "sleeping" /\ after \in {"waiting", "ok", "error"}) => FALSE
        /\ (before = "inflight" /\ after \in {"waiting", "sleeping"}) => FALSE
        /\ (before \in {"sleeping", "inflight"} /\ after \in Stopped) => sem' = sem + 1
        /\ (before # "inflight" /\ after = "inflight") =>
               sent'[<<BulkId, i>>] = sent[<<BulkId, i>>] + 1
        /\ (before \in Stopped) => after = before

\* C28: every item of fetch_bulk takes a slot of the gate, then sleeps the
\* delay (when delay > 0) with the slot, then makes its single request, then
\* gives the slot back; no request is made and no delay starts without a slot.
C28_AcquireDelayRequestRelease ==
    [][/\ ItemsHoldTheirSlots
       /\ ItemsHoldTheirSlots'
       /\ (items # <<>> /\ Len(items') = Len(items)) =>
              \A i \in ItemIds : ItemStepInOrder(i)]_vars

\* with delay > 0 and a gate of one slot, an item that has slept has its
\* request in flight while the other waits for the slot
C28_Witness ==
    /\ bulk.pc = "gathering"
    /\ bulk.delay > 0
    /\ sem = 0
    /\ \E i, j \in ItemIds :
           /\ items[i].pc = "inflight"
           /\ sent[<<BulkId, i>>] = 1
           /\ items[j].pc = "waiting"

\* C29: with session_options, the throwaway session of fetch_bulk is closed
\* only when every item has finished: no item waits, sleeps or has a request
\* in flight on the closed session.
C29_SessionOutlivesItems ==
    (bulk.sess # Null /\ eph[BulkId] = "closed") =>
        /\ \A i \in ItemIds : items[i].pc \in Stopped
        /\ ~\E r \in inflight : r.call = BulkId
====
